---- MODULE Spec2Model ----
(***************************************************************************)
(* Recovery verifier of offline-password-safe-sync: the aadhaar_recovery   *)
(* table, the verify-aadhaar-recovery edge function and the                *)
(* store-aadhaar-recovery edge function.                                   *)
(*                                                                         *)
(* Time is counted in whole hours.  Text values (name, identity number,    *)
(* birth date, gender) are sequences of one-character strings; a value     *)
(* that JavaScript treats as falsy (undefined, null, "") is the empty      *)
(* sequence.  A handler is split at its awaits on the record store and on  *)
(* the mail service, so that calls can interleave there.                   *)
(*                                                                         *)
(* The Aadhaar extraction service (AadhaarService.extractAadhaarFromJSON)  *)
(* exists in two revisions: src/src/lib/aadhaarService.ts ("strict") and   *)
(* src/unnamed/part_000 ("tolerant").  A JSON value is a tagged record,    *)
(* an object is the sequence of its key/value pairs in insertion order.    *)
(***************************************************************************)
EXTENDS Integers, Sequences, FiniteSets, TLC

VARIABLES now, table, call, hist, ext

vars == <<now, table, call, hist, ext>>

(***************************************************************************)
(* Bounds of the model                                                     *)
(***************************************************************************)
MaxTime == 24

MaxRows == 2

MaxDays == 30

Delays == {12, 24}

DailyDelays == {4}

Procs == {"p1", "p2"}

Emails == {"a@x"}

(***************************************************************************)
(* Program constants                                                       *)
(***************************************************************************)
WindowHours == 24

MaxAttempts == 5

RecoveryAttemptsDefault == 0

(***************************************************************************)
(* Text helpers                                                            *)
(***************************************************************************)
UpperChars ==
  <<"A", "B", "C", "D", "E", "F", "G", "H", "I", "J", "K", "L", "M", "N",
    "O", "P", "Q", "R", "S", "T", "U", "V", "W", "X", "Y", "Z">>

LowerChars ==
  <<"a", "b", "c", "d", "e", "f", "g", "h", "i", "j", "k", "l", "m", "n",
    "o", "p", "q", "r", "s", "t", "u", "v", "w", "x", "y", "z">>

DigitChars == {"0", "1", "2", "3", "4", "5", "6", "7", "8", "9"}

ToLowerChar(c) ==
  IF \E i \in DOMAIN UpperChars : UpperChars[i] = c
  THEN LowerChars[CHOOSE i \in DOMAIN UpperChars : UpperChars[i] = c]
  ELSE c

ToLowerCase(s) == [i \in DOMAIN s |-> ToLowerChar(s[i])]

ToUpperChar(c) ==
  IF \E i \in DOMAIN LowerChars : LowerChars[i] = c
  THEN UpperChars[CHOOSE i \in DOMAIN LowerChars : LowerChars[i] = c]
  ELSE c

ToUpperCase(s) == [i \in DOMAIN s |-> ToUpperChar(s[i])]

IsLetter(c) ==
  \E i \in DOMAIN UpperChars : UpperChars[i] = c \/ LowerChars[i] = c

IsDigit(c) == c \in DigitChars

StripNonDigits(s) == SelectSeq(s, IsDigit)

IsNotSpace(c) == c # " "

StripWhitespace(s) == SelectSeq(s, IsNotSpace)

IsWordOrSpace(c) == IsLetter(c) \/ IsDigit(c) \/ c = "_" \/ c = " "

StripNonWord(s) == SelectSeq(s, IsWordOrSpace)

CollapseSpaces(s) ==
  LET F[i \in 0..Len(s)] ==
        IF i = 0 THEN <<>>
        ELSE IF s[i] = " " /\ i > 1 /\ s[i - 1] = " " THEN F[i - 1]
        ELSE Append(F[i - 1], s[i])
  IN F[Len(s)]

Trim(s) ==
  LET idx == {i \in DOMAIN s : s[i] # " "} IN
  IF idx = {} THEN <<>>
  ELSE SubSeq(s, CHOOSE i \in idx : \A j \in idx : i <= j,
                 CHOOSE i \in idx : \A j \in idx : i >= j)

Includes(s, sub) ==
  \E i \in 1..(Len(s) - Len(sub) + 1) : SubSeq(s, i, i + Len(sub) - 1) = sub

EndsWith(s, sub) ==
  Len(s) >= Len(sub) /\ SubSeq(s, Len(s) - Len(sub) + 1, Len(s)) = sub

Truthy(s) == s # <<>>

Btoa(s) == <<"b64", s>>

Atob(e) == e[2]

JsonStringify(k) == <<"json", k>>

JsonParse(j) == j[2]

(***************************************************************************)
(* Request inputs                                                          *)
(***************************************************************************)
Alice == [name |-> <<"A", "B">>, aadhaarNumber |-> <<"1", "2">>,
          dob |-> <<"0", "1">>, gender |-> <<"F">>]

Mallory == [name |-> <<"A", "B">>, aadhaarNumber |-> <<"2", "1">>,
            dob |-> <<"0", "1">>, gender |-> <<"F">>]

Nameless == [name |-> <<>>, aadhaarNumber |-> <<"1", "2">>,
             dob |-> <<>>, gender |-> <<>>]

RegInputs == {Alice}

SubInputs == {Alice, Mallory, Nameless}

Keys == {"k1", "k2"}

Registrations ==
  {[input |-> Alice, key |-> "k1", salt |-> "s1"],
   [input |-> Mallory, key |-> "k2", salt |-> "s2"],
   [input |-> Nameless, key |-> "k1", salt |-> "s1"],
   [input |-> Alice, key |-> "", salt |-> "s2"]}

Names == {<<"A", "B">>, <<"a", "b">>, <<"B", "A">>, <<>>}

Numbers == {<<"1", "2">>, <<"1", " ", "2">>, <<"2", "1">>}

Dobs == {<<>>, <<"0", "1">>, <<"0", "2">>}

Genders == {<<>>, <<"F">>, <<"f">>, <<"M">>}

RichInputs == [name : Names, aadhaarNumber : Numbers, dob : Dobs, gender : Genders]

RichStored == {a \in RichInputs : Truthy(a.name)}

(***************************************************************************)
(* The aadhaar_recovery table: a sequence of rows, the row's id is its     *)
(* index.  No constraint makes user_email unique.  created_at, which no    *)
(* handler reads or writes, is left out.                                   *)
(***************************************************************************)
NewRow(e, a, k, saltHex, t) ==
  [user_email |-> e,
   encrypted_name |-> Btoa(a.name),
   encrypted_aadhaar_number |-> Btoa(a.aadhaarNumber),
   encrypted_dob |-> IF Truthy(a.dob) THEN Btoa(a.dob) ELSE <<>>,
   encrypted_gender |-> IF Truthy(a.gender) THEN Btoa(a.gender) ELSE <<>>,
   encrypted_decryption_key |-> Btoa(JsonStringify(k)),
   salt |-> saltHex,
   updated_at |-> t,
   recovery_attempts |-> RecoveryAttemptsDefault,
   last_recovery_attempt |-> <<>>]

RowsOf(e) == {i \in DOMAIN table : table[i].user_email = e}

TheRow(e) == CHOOSE i \in RowsOf(e) : TRUE

(***************************************************************************)
(* verify-aadhaar-recovery: the computations on the selected row           *)
(***************************************************************************)
HoursSinceLastAttempt(t, r) ==
  IF r.last_recovery_attempt # <<>> THEN t - r.last_recovery_attempt[1] ELSE WindowHours

LimitExceeded_Above(t, r) ==
  HoursSinceLastAttempt(t, r) < WindowHours /\ r.recovery_attempts > MaxAttempts

LimitExceeded_NoWindow(t, r) == r.recovery_attempts >= MaxAttempts

LimitExceeded(t, r) ==
  HoursSinceLastAttempt(t, r) < WindowHours /\ r.recovery_attempts >= MaxAttempts

StoredName(r) == Atob(r.encrypted_name)

StoredAadhaarNumber(r) == Atob(r.encrypted_aadhaar_number)

StoredDob(r) == IF Truthy(r.encrypted_dob) THEN Atob(r.encrypted_dob) ELSE <<>>

StoredGender(r) == IF Truthy(r.encrypted_gender) THEN Atob(r.encrypted_gender) ELSE <<>>

NameMatch(r, a) == ToLowerCase(StoredName(r)) = ToLowerCase(a.name)

AadhaarMatch(r, a) == StoredAadhaarNumber(r) = a.aadhaarNumber

DobMatch_BothRequired(r, a) == StoredDob(r) = a.dob

DobMatch(r, a) == ~Truthy(StoredDob(r)) \/ ~Truthy(a.dob) \/ StoredDob(r) = a.dob

GenderMatch(r, a) ==
  \/ ~Truthy(StoredGender(r))
  \/ ~Truthy(a.gender)
  \/ ToLowerCase(StoredGender(r)) = ToLowerCase(a.gender)

NewAttempts_After(t, r) ==
  IF HoursSinceLastAttempt(t, r) > WindowHours THEN 1 ELSE r.recovery_attempts + 1

NewAttempts(t, r) ==
  IF HoursSinceLastAttempt(t, r) >= WindowHours THEN 1 ELSE r.recovery_attempts + 1

VerificationFailed_NoNumber(r, a) ==
  ~NameMatch(r, a) \/ ~DobMatch(r, a) \/ ~GenderMatch(r, a)

VerificationFailed(r, a) ==
  ~NameMatch(r, a) \/ ~AadhaarMatch(r, a) \/ ~DobMatch(r, a) \/ ~GenderMatch(r, a)

DecryptionKey(r) == JsonParse(Atob(r.encrypted_decryption_key))

(***************************************************************************)
(* One request in flight per slot of Procs                                 *)
(***************************************************************************)
IdleCall ==
  [kind |-> "none", pc |-> "idle", userEmail |-> "", input |-> Nameless,
   decryptionKey |-> "", salt |-> "", recoveryData |-> <<>>, id |-> 0, now |-> 0,
   newAttempts |-> 0, outcome |-> "none", mail |-> <<>>,
   after5 |-> FALSE, gapOk |-> FALSE, storeCalls |-> 0]

NoHist ==
  [streak |-> 0, lastMM |-> <<>>, lastCall |-> <<>>, cmp |-> <<>>, updErr |-> FALSE,
   reg |-> <<>>]

Idle(p) == call[p].pc \in {"idle", "done"}

Free(p) == Idle(p) /\ (p = "p2" => ~Idle("p1"))

Finished(c, o) ==
  [IdleCall EXCEPT !.kind = c.kind, !.userEmail = c.userEmail, !.pc = "done",
                   !.outcome = o, !.mail = c.mail,
                   !.after5 = c.after5, !.gapOk = c.gapOk, !.storeCalls = c.storeCalls]

StoreCall_Retried(c) == [c EXCEPT !.storeCalls = @ + 2]

StoreCall(c) == [c EXCEPT !.storeCalls = @ + 1]

Within(t, last) == last # <<>> /\ t - last[1] < WindowHours

(***************************************************************************)
(* verify-aadhaar-recovery, up to the await on the attempt update:         *)
(* required-field check, select ... maybeSingle, 404, limit check,         *)
(* comparison and newAttempts.                                             *)
(***************************************************************************)
VerifySelected(c, e, a, selectError) ==
  IF e = "" \/ ~Truthy(a.name) \/ ~Truthy(a.aadhaarNumber)
  THEN Finished(c, "BadRequest")
  ELSE LET s == StoreCall(c) IN
  IF selectError \/ Cardinality(RowsOf(e)) > 1
  THEN Finished(s, "StoreFailure")
  ELSE IF RowsOf(e) = {}
  THEN Finished(s, "NotFound")
  ELSE LET r == table[TheRow(e)] IN
       IF LimitExceeded(now, r)
       THEN Finished([s EXCEPT !.recoveryData = <<r>>, !.id = TheRow(e), !.now = now],
                     "RateLimited")
       ELSE [s EXCEPT !.pc = "update", !.recoveryData = <<r>>, !.id = TheRow(e),
                      !.now = now, !.newAttempts = NewAttempts(now, r)]

TableOnEarlyReturn_Touch(e, o) ==
  [i \in DOMAIN table |->
     IF table[i].user_email = e /\ o = "RateLimited"
     THEN [table[i] EXCEPT !.last_recovery_attempt = <<now>>]
     ELSE table[i]]

TableOnEarlyReturn(e, o) == table

HistAtBegin(h, c) ==
  [h EXCEPT !.lastCall = <<now>>,
            !.cmp = IF c.pc = "update" /\ Len(h.cmp) <= MaxAttempts
                    THEN Append(h.cmp, now) ELSE h.cmp,
            !.streak = IF c.pc = "update" THEN h.streak ELSE 0,
            !.lastMM = IF c.pc = "update" THEN h.lastMM ELSE <<>>]

VerifyBegin(p, e, a) ==
  /\ Free(p)
  /\ \E selectError \in BOOLEAN :
       LET c0 == [IdleCall EXCEPT !.kind = "verify", !.userEmail = e, !.input = a,
                    !.after5 = hist[e].streak >= MaxAttempts /\ Within(now, hist[e].lastMM),
                    !.gapOk = ~Within(now, hist[e].lastCall)]
           c1 == VerifySelected(c0, e, a, selectError)
       IN /\ call' = [call EXCEPT ![p] = c1]
          /\ table' = TableOnEarlyReturn(e, c1.outcome)
  /\ UNCHANGED <<now, ext>>

(***************************************************************************)
(* The attempt update (its result is not inspected) and the 401 return     *)
(***************************************************************************)
AttemptUpdate_Atomic(c) ==
  [table EXCEPT ![c.id].recovery_attempts =
                   IF c.newAttempts = 1 THEN 1 ELSE table[c.id].recovery_attempts + 1,
                ![c.id].last_recovery_attempt = <<c.now>>]

AttemptUpdate_ResetOnMatch(c) ==
  [table EXCEPT ![c.id].recovery_attempts =
                   IF VerificationFailed(c.recoveryData[1], c.input) THEN c.newAttempts ELSE 0,
                ![c.id].last_recovery_attempt = <<c.now>>]

AttemptUpdate(c) ==
  [table EXCEPT ![c.id].recovery_attempts = c.newAttempts,
                ![c.id].last_recovery_attempt = <<c.now>>]

HistAtCompare(h, c, failed, updErr) ==
  IF failed
  THEN [h EXCEPT !.updErr = updErr,
                 !.streak = IF h.streak > 0 /\ Within(c.now, h.lastMM)
                            THEN (IF h.streak < MaxAttempts THEN h.streak + 1 ELSE h.streak)
                            ELSE 1,
                 !.lastMM = <<c.now>>]
  ELSE [h EXCEPT !.updErr = updErr, !.streak = 0, !.lastMM = <<>>]

VerifyUpdate(p, updErr) ==
  /\ call[p].kind = "verify" /\ call[p].pc = "update"
  /\ LET c == call[p]
           failed == VerificationFailed(c.recoveryData[1], c.input)
       IN /\ table' = IF updErr THEN table ELSE AttemptUpdate(c)
          /\ call' = [call EXCEPT ![p] = IF failed THEN Finished(StoreCall(c), "Mismatched")
                                         ELSE [StoreCall(c) EXCEPT !.pc = "send"]]
  /\ UNCHANGED <<now, ext>>

(***************************************************************************)
(* resend.emails.send with the decoded decryption key                      *)
(***************************************************************************)
SendOutcome_AsMismatch(emailError) == IF emailError THEN "Mismatched" ELSE "Matched"

SendOutcome(emailError) == IF emailError THEN "DeliveryFailure" ELSE "Matched"

VerifySendWith(p, emailError) ==
  /\ call[p].kind = "verify" /\ call[p].pc = "send"
  /\ LET c == call[p]
         m == [to |-> c.userEmail, key |-> DecryptionKey(c.recoveryData[1])]
     IN call' = [call EXCEPT ![p] =
                   Finished([c EXCEPT !.mail = <<m>>], SendOutcome(emailError))]
  /\ UNCHANGED <<now, table, ext>>

VerifySend(p) == \E emailError \in BOOLEAN : VerifySendWith(p, emailError)

(***************************************************************************)
(* store-aadhaar-recovery: required-field check, encoding, select id,      *)
(* then update of the existing row or insert of a new one.                 *)
(***************************************************************************)
StoreSelected(c, e, a, k, selectError) ==
  IF e = "" \/ ~Truthy(a.name) \/ ~Truthy(a.aadhaarNumber) \/ k = ""
  THEN Finished(c, "BadRequest")
  ELSE IF selectError \/ Cardinality(RowsOf(e)) > 1
  THEN Finished(StoreCall(c), "StoreFailure")
  ELSE [StoreCall(c) EXCEPT !.pc = "write", !.id = IF RowsOf(e) = {} THEN 0 ELSE TheRow(e)]

StoreBegin(p, e, a, k, saltHex) ==
  /\ Free(p)
  /\ \E selectError \in BOOLEAN :
       LET c0 == [IdleCall EXCEPT !.kind = "store", !.userEmail = e, !.input = a,
                                  !.decryptionKey = k, !.salt = saltHex]
       IN call' = [call EXCEPT ![p] = StoreSelected(c0, e, a, k, selectError)]
  /\ UNCHANGED <<now, table, ext>>

StoredRow_ResetAttempts(old, c) == NewRow(old.user_email, c.input, c.decryptionKey, c.salt, now)

StoredRow(old, c) ==
  LET n == NewRow(c.userEmail, c.input, c.decryptionKey, c.salt, now) IN
  [old EXCEPT !.encrypted_name = n.encrypted_name,
              !.encrypted_aadhaar_number = n.encrypted_aadhaar_number,
              !.encrypted_dob = n.encrypted_dob,
              !.encrypted_gender = n.encrypted_gender,
              !.encrypted_decryption_key = n.encrypted_decryption_key,
              !.salt = n.salt,
              !.updated_at = n.updated_at]

StoreWrite(p) ==
  /\ call[p].kind = "store" /\ call[p].pc = "write"
  /\ LET c == StoreCall(call[p]) IN
       \/ /\ table' = table
          /\ call' = [call EXCEPT ![p] = Finished(c, "StoreFailure")]
       \/ /\ c.id # 0
          /\ table' = [table EXCEPT ![c.id] = StoredRow(table[c.id], c)]
          /\ call' = [call EXCEPT ![p] = Finished(c, "Stored")]
       \/ /\ c.id = 0
          /\ Len(table) < MaxRows
          /\ table' = Append(table, NewRow(c.userEmail, c.input, c.decryptionKey, c.salt, now))
          /\ call' = [call EXCEPT ![p] = Finished(c, "Stored")]
  /\ UNCHANGED <<now, ext>>

(***************************************************************************)
(* The clock                                                               *)
(***************************************************************************)
Comparing(e) == \E p \in Procs : call[p].pc = "update" /\ call[p].userEmail = e

HistAtTick(h, t, e) ==
  [h EXCEPT !.cmp = SelectSeq(h.cmp, LAMBDA x : t - x < WindowHours),
            !.streak = IF Comparing(e) \/ Within(t, h.lastMM) THEN h.streak ELSE 0,
            !.lastMM = IF Comparing(e) \/ Within(t, h.lastMM) THEN h.lastMM ELSE <<>>]

Tick(d) ==
  /\ now + d <= MaxTime
  /\ now' = now + d
  /\ UNCHANGED <<table, call, ext>>

(***************************************************************************)
(* JSON values and property access                                         *)
(***************************************************************************)
Undefined == [t |-> "undefined", v |-> <<>>]

Str(s) == [t |-> "string", v |-> s]

Num(s) == [t |-> "number", v |-> s]

Obj(members) == [t |-> "object", v |-> members]

HasOwnProperty(o, k) == o.t = "object" /\ \E i \in DOMAIN o.v : o.v[i][1] = k

Get(o, k) ==
  IF HasOwnProperty(o, k) THEN o.v[CHOOSE i \in DOMAIN o.v : o.v[i][1] = k][2]
  ELSE Undefined

JsTruthy(x) ==
  \/ x.t = "object"
  \/ x.t = "string" /\ x.v # <<>>
  \/ x.t = "number" /\ x.v # <<"0">>

Or(a, b) == IF JsTruthy(a) THEN a ELSE b

ObjectObject ==
  <<"[", "o", "b", "j", "e", "c", "t", " ", "O", "b", "j", "e", "c", "t",
    "]">>

toString(x) == IF x.t = "object" THEN ObjectObject ELSE x.v

RECURSIVE JsonText(_)

RECURSIVE MembersText(_, _)

MembersText(members, i) ==
  IF i > Len(members) THEN <<>>
  ELSE (IF i > 1 THEN <<",">> ELSE <<>>)
       \o <<"\"">> \o members[i][1] \o <<"\"", ":">>
       \o JsonText(members[i][2]) \o MembersText(members, i + 1)

JsonText(x) ==
  IF x.t = "object" THEN <<"{">> \o MembersText(x.v, 1) \o <<"}">>
  ELSE IF x.t = "string" THEN <<"\"">> \o x.v \o <<"\"">>
  ELSE x.v

(***************************************************************************)
(* Property names read by the extraction service                           *)
(***************************************************************************)
K ==
  [KycRes |-> <<"K", "y", "c", "R", "e", "s">>,
   UidData |-> <<"U", "i", "d", "D", "a", "t", "a">>,
   AtUid |-> <<"@", "u", "i", "d">>,
   Poi |-> <<"P", "o", "i">>,
   Poa |-> <<"P", "o", "a">>,
   AtName |-> <<"@", "n", "a", "m", "e">>,
   AtDob |-> <<"@", "d", "o", "b">>,
   AtGender |-> <<"@", "g", "e", "n", "d", "e", "r">>,
   uid |-> <<"u", "i", "d">>,
   UID |-> <<"U", "I", "D">>,
   name |-> <<"n", "a", "m", "e">>,
   Name |-> <<"N", "a", "m", "e">>,
   dob |-> <<"d", "o", "b">>,
   DOB |-> <<"D", "O", "B">>,
   dateOfBirth |-> <<"d", "a", "t", "e", "O", "f", "B", "i", "r", "t", "h">>,
   gender |-> <<"g", "e", "n", "d", "e", "r">>,
   Gender |-> <<"G", "e", "n", "d", "e", "r">>,
   aadhaarNumber |-> <<"a", "a", "d", "h", "a", "a", "r", "N", "u", "m", "b",
       "e", "r">>,
   AadhaarNumber |-> <<"A", "a", "d", "h", "a", "a", "r", "N", "u", "m", "b",
       "e", "r">>,
   CertificateData |-> <<"C", "e", "r", "t", "i", "f", "i", "c", "a", "t",
       "e", "D", "a", "t", "a">>,
   certificate |-> <<"c", "e", "r", "t", "i", "f", "i", "c", "a", "t", "e">>,
   demographicData |-> <<"d", "e", "m", "o", "g", "r", "a", "p", "h", "i",
       "c", "D", "a", "t", "a">>,
   DemographicData |-> <<"D", "e", "m", "o", "g", "r", "a", "p", "h", "i",
       "c", "D", "a", "t", "a">>,
   PrintLetterBWPhoto |-> <<"P", "r", "i", "n", "t", "L", "e", "t", "t", "e",
       "r", "B", "W", "P", "h", "o", "t", "o">>,
   printLetterBWPhoto |-> <<"p", "r", "i", "n", "t", "L", "e", "t", "t", "e",
       "r", "B", "W", "P", "h", "o", "t", "o">>]

(***************************************************************************)
(* DIGILOCKER_PATTERNS and the regular expressions of the validators       *)
(***************************************************************************)
REQUIRED_FIELDS == <<K.KycRes, K.UidData, K.certificate, K.CertificateData>>

SIGNATURE_PATTERNS ==
  << <<"d", "s", ":", "S", "i", "g", "n", "a", "t", "u", "r", "e">>,
     <<"D", "i", "g", "i", "S", "i", "g", "n">>,
     <<"U", "I", "D", "A", "I", "_", "S", "I", "G", "N">>,
     <<"x", "m", "l", "d", "s", "i", "g">> >>

CERTIFICATE_TYPES ==
  << <<"A", "A", "D", "H", "A", "A", "R">>,
     <<"A", "A", "D", "H", "A", "R">>,
     <<"U", "I", "D", "A", "I">>,
     <<"U", "N", "I", "Q", "U", "E", " ", "I", "D", "E", "N", "T", "I", "F",
       "I", "C", "A", "T", "I", "O", "N", " ", "A", "U", "T", "H", "O", "R",
       "I", "T", "Y", " ", "O", "F", " ", "I", "N", "D", "I", "A">> >>

TimestampPattern ==
  <<"\\d", "\\d", "\\d", "\\d", "-", "\\d", "\\d", "-", "\\d", "\\d", "T",
    "\\d", "\\d", ":", "\\d", "\\d", ":", "\\d", "\\d">>

dateFormats ==
  << <<"\\d", "\\d", "/", "\\d", "\\d", "/", "\\d", "\\d", "\\d", "\\d">>,
     <<"\\d", "\\d", "\\d", "\\d", "-", "\\d", "\\d", "-", "\\d", "\\d">>,
     <<"\\d", "\\d", "-", "\\d", "\\d", "-", "\\d", "\\d", "\\d", "\\d">> >>

MatchesToken(c, tok) == IF tok = "\\d" THEN IsDigit(c) ELSE c = tok

TestAt(s, i, pattern) ==
  /\ i + Len(pattern) - 1 <= Len(s)
  /\ \A j \in DOMAIN pattern : MatchesToken(s[i + j - 1], pattern[j])

RegexTest(s, pattern) == \E i \in DOMAIN s : TestAt(s, i, pattern)

RegexMatchesAll(s, pattern) == Len(s) = Len(pattern) /\ TestAt(s, 1, pattern)

IsUpper(c) == \E i \in DOMAIN UpperChars : UpperChars[i] = c

IsCertificateChar(c) == IsUpper(c) \/ IsDigit(c) \/ c = "-"

HasCertificatePattern(s) ==
  \E i \in 1..(Len(s) - 9) : \A j \in i..(i + 9) : IsCertificateChar(s[j])

IsNameChar(c) == IsLetter(c) \/ c = " " \/ c = "." \/ c = "-" \/ c = "'"

IsMaskedDigit(c) == IsDigit(c) \/ c = "x" \/ c = "X"

(***************************************************************************)
(* Structure checks before extraction                                      *)
(***************************************************************************)
isValidAadhaarJSON(data) ==
  \/ JsTruthy(Get(data, K.KycRes)) /\ JsTruthy(Get(Get(data, K.KycRes), K.UidData))
  \/ JsTruthy(Get(data, K.uid)) \/ JsTruthy(Get(data, K.UID))
  \/ JsTruthy(Get(data, K.aadhaarNumber)) \/ JsTruthy(Get(data, K.AadhaarNumber))
  \/ /\ JsTruthy(Get(data, K.KycRes))
     /\ \/ JsTruthy(Get(Get(data, K.KycRes), K.Poi))
        \/ JsTruthy(Get(Get(data, K.KycRes), K.Poa))
  \/ /\ JsTruthy(Get(data, K.CertificateData))
     /\ JsTruthy(Get(Get(data, K.CertificateData), K.certificate))
  \/ JsTruthy(Get(data, K.demographicData)) \/ JsTruthy(Get(data, K.DemographicData))
  \/ JsTruthy(Get(data, K.PrintLetterBWPhoto)) \/ JsTruthy(Get(data, K.printLetterBWPhoto))

hasValidDigiLockerStructure(data) ==
  \/ JsTruthy(Get(data, K.KycRes)) /\ JsTruthy(Get(Get(data, K.KycRes), K.UidData))
  \/ /\ JsTruthy(Get(data, K.CertificateData))
     /\ JsTruthy(Get(Get(data, K.CertificateData), K.certificate))
  \/ JsTruthy(Get(data, K.PrintLetterBWPhoto)) \/ JsTruthy(Get(data, K.printLetterBWPhoto))
  \/ \E i \in DOMAIN REQUIRED_FIELDS : HasOwnProperty(data, REQUIRED_FIELDS[i])

hasDigiLockerMetadata(data, rawText) ==
  LET hasDigiLockerSignature ==
        \E i \in DOMAIN SIGNATURE_PATTERNS :
          Includes(ToLowerCase(rawText), ToLowerCase(SIGNATURE_PATTERNS[i]))
      hasUidaiIndicators ==
        \E i \in DOMAIN CERTIFICATE_TYPES :
          Includes(ToUpperCase(rawText), CERTIFICATE_TYPES[i])
      hasTimestampPattern == RegexTest(rawText, TimestampPattern)
      hasCertificatePattern == HasCertificatePattern(rawText)
  IN \/ hasDigiLockerSignature
     \/ hasUidaiIndicators
     \/ hasTimestampPattern /\ hasCertificatePattern

validateCertificateStructure(data) ==
  IF JsTruthy(Get(data, K.CertificateData)) \/ JsTruthy(Get(data, K.certificate))
  THEN LET certData == Or(Get(data, K.CertificateData), Get(data, K.certificate)) IN
       /\ JsTruthy(Or(Get(certData, K.uid), Get(certData, K.UID)))
       /\ JsTruthy(Or(Get(certData, K.name), Get(certData, K.Name)))
       /\ JsTruthy(Get(certData, K.certificate)) \/ certData.t = "object"
  ELSE TRUE

validateDigiLockerIntegrity_CertificateFirst(data, rawText) ==
  IF ~hasValidDigiLockerStructure(data) THEN "InvalidStructure"
  ELSE IF ~validateCertificateStructure(data) THEN "InvalidCertificate"
  ELSE IF ~hasDigiLockerMetadata(data, rawText) THEN "MissingMetadata"
  ELSE "none"

validateDigiLockerIntegrity(data, rawText) ==
  IF ~hasValidDigiLockerStructure(data) THEN "InvalidStructure"
  ELSE IF ~hasDigiLockerMetadata(data, rawText) THEN "MissingMetadata"
  ELSE IF ~validateCertificateStructure(data) THEN "InvalidCertificate"
  ELSE "none"

(***************************************************************************)
(* normalizeGender.  W holds the words that normalizeGender and the        *)
(* recursive search look for in lower-cased text.                          *)
(***************************************************************************)
W ==
  [male |-> <<"m", "a", "l", "e">>,
   female |-> <<"f", "e", "m", "a", "l", "e">>,
   other |-> <<"o", "t", "h", "e", "r">>,
   transgender |-> <<"t", "r", "a", "n", "s", "g", "e", "n", "d", "e", "r">>,
   uid |-> <<"u", "i", "d">>,
   aadhaar |-> <<"a", "a", "d", "h", "a", "a", "r">>,
   name |-> <<"n", "a", "m", "e">>,
   dob |-> <<"d", "o", "b">>,
   birth |-> <<"b", "i", "r", "t", "h">>,
   gender |-> <<"g", "e", "n", "d", "e", "r">>]

Male == <<"M", "a", "l", "e">>

Female == <<"F", "e", "m", "a", "l", "e">>

Others == <<"O", "t", "h", "e", "r", "s">>

normalizeGender_MaleFirst(gender) ==
  LET g == Trim(ToLowerCase(toString(gender))) IN
  IF Includes(g, W.male) THEN Male
  ELSE IF Includes(g, W.female) THEN Female
  ELSE IF Includes(g, W.other) \/ Includes(g, W.transgender) THEN Others
  ELSE toString(gender)

normalizeGender(gender) ==
  LET g == Trim(ToLowerCase(toString(gender))) IN
  IF Includes(g, W.male) /\ ~Includes(g, W.female) THEN Male
  ELSE IF Includes(g, W.female) THEN Female
  ELSE IF Includes(g, W.other) \/ Includes(g, W.transgender) THEN Others
  ELSE toString(gender)

(***************************************************************************)
(* parseAadhaarFromJSON: Methods 1 to 7 and the clean-up                   *)
(***************************************************************************)
NoDetails == [name |-> <<>>, aadhaarNumber |-> <<>>, dob |-> <<>>, gender |-> <<>>]

SetNumber(d, v) ==
  IF JsTruthy(v) THEN [d EXCEPT !.aadhaarNumber = StripWhitespace(toString(v))] ELSE d

FillName_Overwrite(d, v) ==
  IF JsTruthy(v) THEN [d EXCEPT !.name = Trim(ToUpperCase(toString(v)))] ELSE d

FillName(d, v) ==
  IF ~Truthy(d.name) /\ JsTruthy(v)
  THEN [d EXCEPT !.name = Trim(ToUpperCase(toString(v)))] ELSE d

FillDob(d, v) ==
  IF ~Truthy(d.dob) /\ JsTruthy(v) THEN [d EXCEPT !.dob = toString(v)] ELSE d

FillGender(d, v) ==
  IF ~Truthy(d.gender) /\ JsTruthy(v) THEN [d EXCEPT !.gender = normalizeGender(v)] ELSE d

FillOthers(d, o) ==
  FillGender(FillDob(FillName(d, Get(o, K.name)), Get(o, K.dob)), Get(o, K.gender))

Method1(data, d) ==
  IF JsTruthy(Get(data, K.KycRes)) /\ JsTruthy(Get(Get(data, K.KycRes), K.UidData))
  THEN LET uidData == Get(Get(data, K.KycRes), K.UidData)
           poi == Get(uidData, K.Poi)
           d1 == SetNumber(d, Get(uidData, K.AtUid))
       IN IF JsTruthy(poi)
          THEN [d1 EXCEPT
                  !.name = IF JsTruthy(Get(poi, K.AtName))
                           THEN Trim(ToUpperCase(toString(Get(poi, K.AtName)))) ELSE @,
                  !.dob = IF JsTruthy(Get(poi, K.AtDob))
                          THEN toString(Get(poi, K.AtDob)) ELSE @,
                  !.gender = IF JsTruthy(Get(poi, K.AtGender))
                             THEN normalizeGender(Get(poi, K.AtGender)) ELSE @]
          ELSE d1
  ELSE d

Method2(data, d) ==
  LET d1 == IF ~Truthy(d.aadhaarNumber)
            THEN SetNumber(d, Or(Get(data, K.uid), Get(data, K.UID))) ELSE d
      d2 == FillName(d1, Or(Get(data, K.name), Get(data, K.Name)))
      d3 == FillDob(d2, Or(Get(data, K.dob), Or(Get(data, K.DOB), Get(data, K.dateOfBirth))))
  IN FillGender(d3, Or(Get(data, K.gender), Get(data, K.Gender)))

Method3(data, d) ==
  IF ~Truthy(d.aadhaarNumber) /\ JsTruthy(Get(data, K.KycRes))
  THEN LET kycData == Get(data, K.KycRes)
           d1 == IF JsTruthy(Get(kycData, K.UidData))
                 THEN SetNumber(d, Get(Get(kycData, K.UidData), K.uid)) ELSE d
       IN IF JsTruthy(Get(kycData, K.Poi)) THEN FillOthers(d1, Get(kycData, K.Poi)) ELSE d1
  ELSE d

Method4(data, d) ==
  IF /\ ~Truthy(d.aadhaarNumber)
     /\ JsTruthy(Get(data, K.CertificateData))
     /\ JsTruthy(Get(Get(data, K.CertificateData), K.certificate))
  THEN LET cert == Get(Get(data, K.CertificateData), K.certificate)
       IN FillOthers(SetNumber(d, Get(cert, K.uid)), cert)
  ELSE d

Method5(data, d) ==
  LET demoData == Or(Get(data, K.demographicData), Get(data, K.DemographicData)) IN
  IF ~Truthy(d.aadhaarNumber) /\ JsTruthy(demoData)
  THEN FillOthers(SetNumber(d, Get(demoData, K.uid)), demoData)
  ELSE d

Method6(data, d) ==
  LET printData == Or(Get(data, K.PrintLetterBWPhoto), Get(data, K.printLetterBWPhoto)) IN
  IF ~Truthy(d.aadhaarNumber) /\ JsTruthy(printData)
  THEN FillOthers(SetNumber(d, Get(printData, K.uid)), printData)
  ELSE d

SearchDepth_Six == 5 + 1

SearchDepth == 5

VisitKey_LastWins(key, value, d) ==
  LET lowerKey == ToLowerCase(key)
      cleanValue == StripNonDigits(toString(value))
      d1 == IF /\ Includes(lowerKey, W.uid) \/ Includes(lowerKey, W.aadhaar)
               /\ value.t \in {"string", "number"}
               /\ Len(cleanValue) = 12
            THEN [d EXCEPT !.aadhaarNumber = cleanValue] ELSE d
  IN d1

VisitKey(key, value, d) ==
  LET lowerKey == ToLowerCase(key)
      cleanValue == StripNonDigits(toString(value))
      d1 == IF /\ ~Truthy(d.aadhaarNumber)
               /\ Includes(lowerKey, W.uid) \/ Includes(lowerKey, W.aadhaar)
               /\ value.t \in {"string", "number"}
               /\ Len(cleanValue) = 12
            THEN [d EXCEPT !.aadhaarNumber = cleanValue] ELSE d
      d2 == IF /\ ~Truthy(d1.name)
               /\ Includes(lowerKey, W.name)
               /\ value.t = "string"
               /\ Len(value.v) > 2 /\ Len(value.v) < 100
            THEN [d1 EXCEPT !.name = Trim(ToUpperCase(value.v))] ELSE d1
      d3 == IF /\ ~Truthy(d2.dob)
               /\ Includes(lowerKey, W.dob) \/ Includes(lowerKey, W.birth)
               /\ value.t = "string"
            THEN [d2 EXCEPT !.dob = value.v] ELSE d2
  IN IF ~Truthy(d3.gender) /\ Includes(lowerKey, W.gender) /\ value.t = "string"
     THEN [d3 EXCEPT !.gender = normalizeGender(value)] ELSE d3

RECURSIVE searchForFieldsRecursively(_, _, _)

RECURSIVE SearchMembers(_, _, _, _)

SearchMembers(members, i, d, depth) ==
  IF i > Len(members) THEN d
  ELSE LET key == members[i][1]
           value == members[i][2]
           d1 == VisitKey(key, value, d)
           d2 == IF value.t = "object"
                 THEN searchForFieldsRecursively(value, d1, depth + 1) ELSE d1
       IN \* d2 is computed before the loop goes on to the next key
          IF d2 = d THEN SearchMembers(members, i + 1, d, depth)
          ELSE SearchMembers(members, i + 1, d2, depth)

searchForFieldsRecursively(obj, d, depth) ==
  IF depth > SearchDepth THEN d ELSE SearchMembers(obj.v, 1, d, depth)

Method7Guard(d) == ~Truthy(d.aadhaarNumber) \/ ~Truthy(d.name)

Method7(data, d) ==
  IF Method7Guard(d) THEN searchForFieldsRecursively(data, d, 0) ELSE d

CleanAadhaar(mode, d) ==
  IF ~Truthy(d.aadhaarNumber) THEN d
  ELSE IF mode = "strict"
  THEN LET cleanAadhaar == StripNonDigits(d.aadhaarNumber) IN
       [d EXCEPT !.aadhaarNumber = IF Len(cleanAadhaar) = 12 THEN cleanAadhaar ELSE <<>>]
  ELSE LET cleanAadhaar == StripWhitespace(d.aadhaarNumber) IN
       [d EXCEPT !.aadhaarNumber = IF Len(cleanAadhaar) >= 8 THEN cleanAadhaar ELSE <<>>]

CleanName(d) ==
  IF Truthy(d.name)
  THEN [d EXCEPT !.name = ToUpperCase(Trim(CollapseSpaces(StripNonWord(d.name))))]
  ELSE d

CleanUp(mode, d) == CleanName(CleanAadhaar(mode, d))

(***************************************************************************)
(* The checks of extractAadhaarFromJSON on the parsed details              *)
(***************************************************************************)
RequiredPresent_Skipped(d) == TRUE

RequiredPresent_NameOnly(d) == Truthy(d.name)

RequiredPresent(d) == Truthy(d.name) /\ Truthy(d.aadhaarNumber)

ValidGenders ==
  {<<"m", "a", "l", "e">>, <<"f", "e", "m", "a", "l", "e">>,
   <<"o", "t", "h", "e", "r", "s">>, <<"m">>, <<"f">>, <<"o">>}

validateExtractedData_NoGender(d) ==
  /\ Truthy(d.name) =>
       /\ \A i \in DOMAIN d.name : IsNameChar(d.name[i])
       /\ Len(d.name) >= 2 /\ Len(d.name) <= 100
  /\ Truthy(d.aadhaarNumber) =>
       LET cleanAadhaar == StripWhitespace(d.aadhaarNumber) IN
       /\ Len(cleanAadhaar) >= 8 /\ Len(cleanAadhaar) <= 12
       /\ \A i \in DOMAIN cleanAadhaar : IsMaskedDigit(cleanAadhaar[i])
  /\ Truthy(d.dob) =>
       \E i \in DOMAIN dateFormats : RegexMatchesAll(d.dob, dateFormats[i])

validateExtractedData(d) ==
  /\ Truthy(d.name) =>
       /\ \A i \in DOMAIN d.name : IsNameChar(d.name[i])
       /\ Len(d.name) >= 2 /\ Len(d.name) <= 100
  /\ Truthy(d.aadhaarNumber) =>
       LET cleanAadhaar == StripWhitespace(d.aadhaarNumber) IN
       /\ Len(cleanAadhaar) >= 8 /\ Len(cleanAadhaar) <= 12
       /\ \A i \in DOMAIN cleanAadhaar : IsMaskedDigit(cleanAadhaar[i])
  /\ Truthy(d.dob) =>
       \E i \in DOMAIN dateFormats : RegexMatchesAll(d.dob, dateFormats[i])
  /\ Truthy(d.gender) => ToLowerCase(d.gender) \in ValidGenders

(***************************************************************************)
(* Uploaded files.  A file is the compact JSON text of a document, cut     *)
(* short by one character when truncated, followed by `trailing' blanks    *)
(* (blanks after the closing brace change the size of the file and         *)
(* nothing else).  The document is assembled from the choices in c, with   *)
(* the values and the extra property names of Sample; c.level is the       *)
(* depth below the root of the object that holds the generic keys, up to   *)
(* MaxNest.                                                                *)
(***************************************************************************)
Sample ==
  [D12 |-> <<"1", "2", "3", "4", "5", "6", "7", "8", "9", "0", "1", "2">>,
   Spaced |-> <<"1", "2", "3", "4", " ", "5", "6", "7", "8", " ", "9", "0",
       "1", "2">>,
   Short |-> <<"1", "2", "3", "4", "5", "6", "7">>,
   Masked |-> <<"x", "x", "x", "x", "x", "x", "x", "x", "0", "5", "1", "1">>,
   Hyphened |-> <<"1", "2", "3", "4", "-", "5", "6", "7", "8", "-", "9", "0",
       "1", "2">>,
   Jane |-> <<"j", "a", "n", "e", " ", "d", "o", "e">>,
   ONeil |-> <<"o", "'", "n", "e", "i", "l">>,
   Jane2 |-> <<"j", "a", "n", "e", " ", "2">>,
   Dashes |-> <<"-", "-">>,
   Dob1 |-> <<"0", "1", "/", "0", "1", "/", "1", "9", "9", "0">>,
   DobYear |-> <<"1", "9", "9", "0">>,
   GenderF |-> <<"F">>,
   GenderNA |-> <<"N", "A">>,
   GenderMale |-> <<"M", "a", "l", "e", " ">>,
   GenderTrans |-> <<"t", "r", "a", "n", "s", "g", "e", "n", "d", "e", "r">>,
   AltUid |-> <<"9", "9", "9", "9", "8", "8", "8", "8", "7", "7", "7", "7">>,
   AltName |-> <<"r", "a", "v", "i", " ", "k">>,
   AltDob |-> <<"1", "9", "8", "5", "-", "0", "5", "-", "0", "5">>,
   AltGender |-> <<"f", "e", "m", "a", "l", "e">>,
   GenUid |-> <<"5", "5", "5", "5", "6", "6", "6", "6", "7", "7", "7", "7">>,
   GenName |-> <<"s", "i", "t", "a", " ", "m">>,
   GenDob |-> <<"0", "2", "-", "0", "2", "-", "1", "9", "9", "2">>,
   GenGender |-> <<"M">>,
   Uidai |-> <<"U", "I", "D", "A", "I">>,
   Stamp |-> <<"2", "0", "2", "4", "-", "0", "1", "-", "0", "1", "T", "1",
       "0", ":", "0", "0", ":", "0", "0">>,
   resident |-> <<"r", "e", "s", "i", "d", "e", "n", "t">>,
   holderName |-> <<"h", "o", "l", "d", "e", "r", "N", "a", "m", "e">>,
   aadhaarNo |-> <<"a", "a", "d", "h", "a", "a", "r", "N", "o">>,
   birthDate |-> <<"b", "i", "r", "t", "h", "D", "a", "t", "e">>,
   genderCode |-> <<"g", "e", "n", "d", "e", "r", "C", "o", "d", "e">>,
   issuer |-> <<"i", "s", "s", "u", "e", "r">>,
   ts |-> <<"t", "s">>,
   co |-> <<"c", "o">>,
   id |-> <<"i", "d">>,
   JsonName |-> <<"a", ".", "j", "s", "o", "n">>,
   UpperJsonName |-> <<"a", ".", "J", "S", "O", "N">>,
   TextName |-> <<"a", ".", "t", "x", "t">>]

DotJson == <<".", "j", "s", "o", "n">>

Uid1s ==
  {<<>>, Sample.D12, Sample.Spaced, Sample.Short, Sample.Masked, Sample.Hyphened}

Name1s == {<<>>, Sample.Jane, Sample.ONeil, Sample.Dashes, Sample.Jane2}

Dob1s == {<<>>, Sample.Dob1, Sample.DobYear}

Gender1s ==
  {<<>>, Sample.GenderF, Sample.GenderMale, Sample.GenderTrans, Sample.GenderNA}

Alts == {"none", "direct", "kyc", "cert", "certFlat", "demo", "print", "poa", "rootCert"}

Gens == {"none", "named", "optional"}

MaxNest == 8

Levels == {1, SearchDepth, SearchDepth + 1, MaxNest}

Provs == {"none", "issuer", "stamp"}

Modes == {"strict", "tolerant"}

FileNames == {Sample.JsonName, Sample.UpperJsonName, Sample.TextName}

MinFileSize == 100

MaxFileSize == 100 * 1024

Trailings == {0, MinFileSize, MaxFileSize}

Choices ==
  {c \in [primary : BOOLEAN, uid1 : Uid1s, name1 : Name1s, dob1 : Dob1s,
          gender1 : Gender1s, alt : Alts, gen : Gens, level : Levels,
          prov : Provs] :
     /\ ~c.primary =>
          c.uid1 = <<>> /\ c.name1 = <<>> /\ c.dob1 = <<>> /\ c.gender1 = <<>>
     /\ (c.dob1 # <<>> \/ c.gender1 # <<>>) => (c.uid1 = Sample.D12 /\ c.name1 = Sample.Jane)
     /\ (c.primary /\ c.gen # "none") =>
          (c.uid1 \in {<<>>, Sample.D12} /\ c.name1 \in {<<>>, Sample.Jane})
     /\ c.level # 1 => (c.gen = "named" /\ ~c.primary /\ c.alt \in {"none", "poa"})}

PlainChoice(c) ==
  /\ c.alt = "none" /\ c.gen = "none" /\ c.prov = "issuer"
  /\ c.dob1 = <<>> /\ c.gender1 = <<>>
  /\ c.primary => (c.uid1 = Sample.D12 /\ c.name1 = Sample.Jane)

Files ==
  {f \in [name : FileNames, trailing : Trailings, truncated : BOOLEAN, c : Choices] :
     (f.name # Sample.JsonName \/ f.trailing # MinFileSize \/ f.truncated) => PlainChoice(f.c)}

Opt(k, s) == IF s = <<>> THEN <<>> ELSE << <<k, Str(s)>> >>

AltFields ==
  << <<K.uid, Str(Sample.AltUid)>>, <<K.name, Str(Sample.AltName)>>,
     <<K.dob, Str(Sample.AltDob)>>, <<K.gender, Str(Sample.AltGender)>> >>

PoiOf(c) == Opt(K.AtName, c.name1) \o Opt(K.AtDob, c.dob1) \o Opt(K.AtGender, c.gender1)

UidDataOf(c) ==
  Opt(K.AtUid, c.uid1)
  \o (IF Len(PoiOf(c)) > 0 THEN << <<K.Poi, Obj(PoiOf(c))>> >> ELSE <<>>)
  \o (IF c.alt = "kyc" THEN << <<K.uid, Str(Sample.AltUid)>> >> ELSE <<>>)

KycResOf(c) ==
  (IF c.primary \/ c.alt = "kyc" THEN << <<K.UidData, Obj(UidDataOf(c))>> >> ELSE <<>>)
  \o (IF c.alt = "kyc" THEN << <<K.Poi, Obj(Tail(AltFields))>> >> ELSE <<>>)
  \o (IF c.alt = "poa"
      THEN << <<K.Poa, Obj(<< <<Sample.co, Str(Sample.AltName)>> >>)>> >>
      ELSE <<>>)

AltOf(c) ==
  CASE c.alt = "direct" -> AltFields
    [] c.alt = "cert" ->
         << <<K.CertificateData, Obj(<< <<K.certificate, Obj(AltFields)>> >>)>> >>
    [] c.alt = "certFlat" ->
         << <<K.CertificateData,
              Obj(<< <<K.uid, Str(Sample.AltUid)>>, <<K.name, Str(Sample.AltName)>>,
                     <<K.certificate, Obj(AltFields)>> >>)>> >>
    [] c.alt = "demo" -> << <<K.demographicData, Obj(AltFields)>> >>
    [] c.alt = "print" -> << <<K.PrintLetterBWPhoto, Obj(AltFields)>> >>
    [] c.alt = "rootCert" -> << <<K.certificate, Obj(<< <<Sample.id, Str(Sample.AltDob)>> >>)>> >>
    [] OTHER -> <<>>

RECURSIVE Nested(_, _)

Nested(level, inner) ==
  IF level <= 1 THEN inner
  ELSE Obj(<< <<Sample.resident, Nested(level - 1, inner)>> >>)

GenOf(c) ==
  CASE c.gen = "named" ->
         << <<Sample.resident,
              Nested(c.level,
                     Obj(<< <<Sample.holderName, Str(Sample.GenName)>>,
                            <<Sample.aadhaarNo, Num(Sample.GenUid)>>,
                            <<Sample.birthDate, Str(Sample.GenDob)>>,
                            <<Sample.genderCode, Str(Sample.GenGender)>> >>))>> >>
    [] c.gen = "optional" ->
         << <<Sample.resident,
              Obj(<< <<Sample.birthDate, Str(Sample.GenDob)>>,
                     <<Sample.genderCode, Str(Sample.GenGender)>> >>)>> >>
    [] OTHER -> <<>>

ProvOf(c) ==
  CASE c.prov = "issuer" -> << <<Sample.issuer, Str(Sample.Uidai)>> >>
    [] c.prov = "stamp" -> << <<Sample.ts, Str(Sample.Stamp)>> >>
    [] OTHER -> <<>>

Document(c) ==
  Obj((IF Len(KycResOf(c)) > 0 THEN << <<K.KycRes, Obj(KycResOf(c))>> >> ELSE <<>>)
      \o AltOf(c) \o GenOf(c) \o ProvOf(c))

FileText(f) ==
  LET text == JsonText(Document(f.c)) IN
  IF f.truncated THEN SubSeq(text, 1, Len(text) - 1) ELSE text

FileSize(f) == Len(FileText(f)) + f.trailing

JsonParses(f) == ~f.truncated

JsonData(f) == Document(f.c)

(***************************************************************************)
(* extractAadhaarFromJSON, one step per gate and per extraction method     *)
(***************************************************************************)
NoFile ==
  [name |-> <<>>, trailing |-> 0, truncated |-> FALSE,
   c |-> [primary |-> FALSE, uid1 |-> <<>>, name1 |-> <<>>, dob1 |-> <<>>,
          gender1 |-> <<>>, alt |-> "none", gen |-> "none", prov |-> "none"]]

NoExt ==
  [mode |-> "none", file |-> NoFile, pc |-> "idle", details |-> NoDetails, error |-> "none"]

Failed(e, error) == [e EXCEPT !.pc = "failed", !.error = error]

ErrorKind(error) ==
  CASE error \in {"NotJsonFile", "FileTooLarge", "FileTooSmall", "InvalidJson"} -> "MalformedInput"
    [] error \in {"NotAadhaarJson", "InvalidStructure", "MissingMetadata",
                  "InvalidCertificate"} -> "StructuralRejection"
    [] error = "RequiredMissing" -> "ExtractionFailure"
    [] error = "InvalidData" -> "AttributeRejection"
    [] OTHER -> "none"

CheckFile_SizeFirst ==
  /\ ext.pc = "file"
  /\ ext' = IF ext.mode = "tolerant" /\ FileSize(ext.file) > MaxFileSize
            THEN Failed(ext, "FileTooLarge")
            ELSE IF ext.mode = "tolerant" /\ FileSize(ext.file) < MinFileSize
            THEN Failed(ext, "FileTooSmall")
            ELSE IF ~EndsWith(ToLowerCase(ext.file.name), DotJson)
            THEN Failed(ext, "NotJsonFile")
            ELSE IF ~JsonParses(ext.file)
            THEN Failed(ext, "InvalidJson")
            ELSE [ext EXCEPT !.pc = "structure"]
  /\ UNCHANGED <<now, table, call, hist>>

CheckFile ==
  /\ ext.pc = "file"
  /\ ext' = IF ~EndsWith(ToLowerCase(ext.file.name), DotJson)
            THEN Failed(ext, "NotJsonFile")
            ELSE IF ext.mode = "tolerant" /\ FileSize(ext.file) > MaxFileSize
            THEN Failed(ext, "FileTooLarge")
            ELSE IF ext.mode = "tolerant" /\ FileSize(ext.file) < MinFileSize
            THEN Failed(ext, "FileTooSmall")
            ELSE IF ~JsonParses(ext.file)
            THEN Failed(ext, "InvalidJson")
            ELSE [ext EXCEPT !.pc = "structure"]
  /\ UNCHANGED <<now, table, call, hist>>

StructureError(mode, f) ==
  IF mode = "strict"
  THEN (IF isValidAadhaarJSON(JsonData(f)) THEN "none" ELSE "NotAadhaarJson")
  ELSE validateDigiLockerIntegrity(JsonData(f), FileText(f))

CheckStructure ==
  /\ ext.pc = "structure"
  /\ LET error == StructureError(ext.mode, ext.file) IN
     ext' = IF error # "none" THEN Failed(ext, error)
            ELSE [ext EXCEPT !.pc = "m1", !.details = NoDetails]
  /\ UNCHANGED <<now, table, call, hist>>

Parsed(e, to, d) == [e EXCEPT !.pc = to, !.details = d]

ParseMethod1 ==
  /\ ext.pc = "m1"
  /\ ext' = Parsed(ext, "m2", Method1(JsonData(ext.file), ext.details))
  /\ UNCHANGED <<now, table, call, hist>>

ParseMethod2 ==
  /\ ext.pc = "m2"
  /\ ext' = Parsed(ext, "m3", Method2(JsonData(ext.file), ext.details))
  /\ UNCHANGED <<now, table, call, hist>>

ParseMethod3 ==
  /\ ext.pc = "m3"
  /\ ext' = Parsed(ext, "m4", Method3(JsonData(ext.file), ext.details))
  /\ UNCHANGED <<now, table, call, hist>>

ParseMethod4 ==
  /\ ext.pc = "m4"
  /\ ext' = Parsed(ext, "m5", Method4(JsonData(ext.file), ext.details))
  /\ UNCHANGED <<now, table, call, hist>>

ParseMethod5 ==
  /\ ext.pc = "m5"
  /\ ext' = Parsed(ext, "m6", Method5(JsonData(ext.file), ext.details))
  /\ UNCHANGED <<now, table, call, hist>>

ParseMethod6 ==
  /\ ext.pc = "m6"
  /\ ext' = Parsed(ext, "m7", Method6(JsonData(ext.file), ext.details))
  /\ UNCHANGED <<now, table, call, hist>>

ParseMethod7 ==
  /\ ext.pc = "m7"
  /\ ext' = Parsed(ext, "cleanup", Method7(JsonData(ext.file), ext.details))
  /\ UNCHANGED <<now, table, call, hist>>

ParseCleanUp ==
  /\ ext.pc = "cleanup"
  /\ ext' = Parsed(ext, "required", CleanUp(ext.mode, ext.details))
  /\ UNCHANGED <<now, table, call, hist>>

CheckRequired ==
  /\ ext.pc = "required"
  /\ ext' = IF ~RequiredPresent(ext.details) THEN Failed(ext, "RequiredMissing")
            ELSE IF ext.mode = "strict" THEN [ext EXCEPT !.pc = "returned"]
            ELSE [ext EXCEPT !.pc = "validate"]
  /\ UNCHANGED <<now, table, call, hist>>

ValidateExtracted ==
  /\ ext.pc = "validate"
  /\ ext' = IF ~validateExtractedData(ext.details) THEN Failed(ext, "InvalidData")
            ELSE [ext EXCEPT !.pc = "returned"]
  /\ UNCHANGED <<now, table, call, hist>>

(***************************************************************************)
(* Specifications                                                          *)
(***************************************************************************)
Init ==
  /\ now = 0
  /\ table = <<>>
  /\ call = [p \in Procs |-> IdleCall]
  /\ hist = [e \in Emails |-> NoHist]
  /\ ext = NoExt

Next ==
  \/ \E d \in Delays : Tick(d) /\ UNCHANGED hist
  \/ \E p \in Procs, e \in Emails, a \in SubInputs : VerifyBegin(p, e, a) /\ UNCHANGED hist
  \/ \E p \in Procs, updErr \in BOOLEAN : VerifyUpdate(p, updErr) /\ UNCHANGED hist
  \/ \E p \in Procs : VerifySend(p) /\ UNCHANGED hist
  \/ \E p \in Procs, e \in Emails, a \in RegInputs, k \in Keys :
       StoreBegin(p, e, a, k, "s1") /\ UNCHANGED hist
  \/ \E p \in Procs : StoreWrite(p) /\ UNCHANGED hist

Spec == Init /\ [][Next]_vars

(***************************************************************************)
(* Calls executed one at a time, with the history of the calls of each     *)
(* address recorded in hist.                                               *)
(***************************************************************************)
ObserveBegin(p, e) == hist' = [hist EXCEPT ![e] = HistAtBegin(hist[e], call'[p])]

ObserveCompare(p, updErr) ==
  hist' = [hist EXCEPT ![call[p].userEmail] =
             HistAtCompare(hist[call[p].userEmail], call[p],
                           call'[p].outcome = "Mismatched", updErr)]

ObserveTick(d) == hist' = [e \in Emails |-> HistAtTick(hist[e], now + d, e)]

NextSeq ==
  \/ \E d \in Delays : Tick(d) /\ ObserveTick(d)
  \/ \E e \in Emails, a \in SubInputs : VerifyBegin("p1", e, a) /\ ObserveBegin("p1", e)
  \/ \E updErr \in BOOLEAN : VerifyUpdate("p1", updErr) /\ ObserveCompare("p1", updErr)
  \/ VerifySend("p1") /\ UNCHANGED hist
  \/ \E e \in Emails, a \in RegInputs, k \in Keys :
       StoreBegin("p1", e, a, k, "s1") /\ UNCHANGED hist
  \/ StoreWrite("p1") /\ UNCHANGED hist

SpecSeq == Init /\ [][NextSeq]_vars

(***************************************************************************)
(* One call per calendar day for MaxDays days on a freshly registered      *)
(* record, every call with attributes that do not match it.                *)
(***************************************************************************)
DayOf(t) == t \div 24

LastCallDay(e) == IF hist[e].lastCall = <<>> THEN 0 - 1 ELSE DayOf(hist[e].lastCall[1])

InitDaily ==
  /\ now = 0
  /\ table = <<NewRow("a@x", Alice, "k1", "s1", 0)>>
  /\ call = [p \in Procs |-> IdleCall]
  /\ hist = [e \in Emails |-> NoHist]
  /\ ext = NoExt

DailyTick(d) ==
  /\ Idle("p1")
  /\ DayOf(now + d) < MaxDays
  /\ DayOf(now + d) <= LastCallDay("a@x") + 1
  /\ now' = now + d
  /\ UNCHANGED <<table, call, ext>>

DailyBegin ==
  /\ DayOf(now) = LastCallDay("a@x") + 1
  /\ VerifyBegin("p1", "a@x", Mallory)

ObserveDaily == hist' = [hist EXCEPT !["a@x"].lastCall = <<now>>]

NextDaily ==
  \/ \E d \in DailyDelays : DailyTick(d) /\ UNCHANGED hist
  \/ DailyBegin /\ ObserveDaily
  \/ \E updErr \in BOOLEAN : VerifyUpdate("p1", updErr) /\ UNCHANGED hist

SpecDaily == InitDaily /\ [][NextDaily]_vars

(***************************************************************************)
(* The comparison on every pair of an escrowed and a submitted record      *)
(***************************************************************************)
InitCompare ==
  /\ now = 0
  /\ \E st \in RichStored : table = <<NewRow("a@x", st, "k1", "s1", 0)>>
  /\ call = [p \in Procs |-> IdleCall]
  /\ hist = [e \in Emails |-> NoHist]
  /\ ext = NoExt

NextCompare ==
  \/ \E a \in RichInputs : VerifyBegin("p1", "a@x", a) /\ UNCHANGED hist
  \/ \E updErr \in BOOLEAN : VerifyUpdate("p1", updErr) /\ UNCHANGED hist
  \/ VerifySend("p1") /\ UNCHANGED hist

SpecCompare == InitCompare /\ [][NextCompare]_vars

(***************************************************************************)
(* Overlapping verify calls on one escrowed record, every attempt update   *)
(* persisted, with the history of the calls recorded in hist.              *)
(***************************************************************************)
InitRace ==
  /\ now = 0
  /\ table = <<NewRow("a@x", Alice, "k1", "s1", 0)>>
  /\ call = [p \in Procs |-> IdleCall]
  /\ hist = [e \in Emails |-> NoHist]
  /\ ext = NoExt

NextRace ==
  \/ \E d \in Delays : Tick(d) /\ ObserveTick(d)
  \/ \E p \in Procs, a \in SubInputs : VerifyBegin(p, "a@x", a) /\ ObserveBegin(p, "a@x")
  \/ \E p \in Procs : VerifyUpdate(p, FALSE) /\ ObserveCompare(p, FALSE)
  \/ \E p \in Procs : VerifySend(p) /\ UNCHANGED hist

SpecRace == InitRace /\ [][NextRace]_vars

(***************************************************************************)
(* Registrations, overlapping or not, and verify calls one at a time.      *)
(* hist[e].reg is the input and key of the last registration of e that     *)
(* ended as Stored.                                                        *)
(***************************************************************************)
ObserveStored(p) ==
  hist' = [hist EXCEPT ![call[p].userEmail].reg =
             IF call'[p].outcome = "Stored"
             THEN <<[input |-> call[p].input, key |-> call[p].decryptionKey]>>
             ELSE @]

NextRegister ==
  \/ \E d \in Delays : Tick(d) /\ UNCHANGED hist
  \/ \E p \in Procs, e \in Emails, r \in Registrations :
       StoreBegin(p, e, r.input, r.key, r.salt) /\ UNCHANGED hist
  \/ \E p \in Procs : StoreWrite(p) /\ ObserveStored(p)
  \/ \E e \in Emails, a \in {Alice, Mallory} : VerifyBegin("p1", e, a) /\ UNCHANGED hist
  \/ \E updErr \in BOOLEAN : VerifyUpdate("p1", updErr) /\ UNCHANGED hist
  \/ VerifySend("p1") /\ UNCHANGED hist

SpecRegister == Init /\ [][NextRegister]_vars

(***************************************************************************)
(* One extraction of an uploaded file by either revision of the service    *)
(***************************************************************************)
InitExtract ==
  /\ now = 0
  /\ table = <<>>
  /\ call = [p \in Procs |-> IdleCall]
  /\ hist = [e \in Emails |-> NoHist]
  /\ \E mode \in Modes, f \in Files :
       ext = [mode |-> mode, file |-> f, pc |-> "file", details |-> NoDetails,
              error |-> "none"]

NextExtract ==
  \/ CheckFile
  \/ CheckStructure
  \/ ParseMethod1
  \/ ParseMethod2
  \/ ParseMethod3
  \/ ParseMethod4
  \/ ParseMethod5
  \/ ParseMethod6
  \/ ParseMethod7
  \/ ParseCleanUp
  \/ CheckRequired
  \/ ValidateExtracted

SpecExtract == InitExtract /\ [][NextExtract]_vars

(***************************************************************************)
(* parseAadhaarFromJSON up to its clean-up, with the recursive search call *)
(* by call and key by key.  ext.stack holds the active calls of            *)
(* searchForFieldsRecursively (the object, the position of its for-in      *)
(* loop, the depth argument; i = 0 is a call that has not tested its depth *)
(* yet), ext.entry the details Method 7 started from and ext.deepest the   *)
(* greatest depth at which a key was looked at.                            *)
(***************************************************************************)
Top(stack) == stack[Len(stack)]

Pop(e) ==
  LET rest == SubSeq(e.stack, 1, Len(e.stack) - 1) IN
  [e EXCEPT !.stack = rest, !.pc = IF rest = <<>> THEN "cleanup" ELSE "search"]

SearchBegin ==
  /\ ext.pc = "m7"
  /\ ext' = IF Method7Guard(ext.details)
            THEN [ext EXCEPT !.pc = "search", !.entry = ext.details,
                             !.stack = << [obj |-> JsonData(ext.file), i |-> 0,
                                           depth |-> 0] >>]
            ELSE [ext EXCEPT !.pc = "cleanup", !.entry = ext.details]
  /\ UNCHANGED <<now, table, call, hist>>

SearchEnter ==
  /\ ext.pc = "search"
  /\ Top(ext.stack).i = 0
  /\ ext' = IF Top(ext.stack).depth > SearchDepth THEN Pop(ext)
            ELSE [ext EXCEPT !.stack[Len(ext.stack)].i = 1]
  /\ UNCHANGED <<now, table, call, hist>>

SearchVisit ==
  /\ ext.pc = "search"
  /\ Top(ext.stack).i \in 1..Len(Top(ext.stack).obj.v)
  /\ LET top == Top(ext.stack)
         key == top.obj.v[top.i][1]
         value == top.obj.v[top.i][2]
         visited == [ext EXCEPT !.details = VisitKey(key, value, ext.details),
                                !.stack[Len(ext.stack)].i = top.i + 1,
                                !.deepest = IF top.depth > @ THEN top.depth ELSE @]
     IN ext' = IF value.t = "object"
               THEN [visited EXCEPT !.stack =
                       Append(@, [obj |-> value, i |-> 0, depth |-> top.depth + 1])]
               ELSE visited
  /\ UNCHANGED <<now, table, call, hist>>

SearchReturn ==
  /\ ext.pc = "search"
  /\ Top(ext.stack).i > Len(Top(ext.stack).obj.v)
  /\ ext' = Pop(ext)
  /\ UNCHANGED <<now, table, call, hist>>

InitSearch ==
  /\ now = 0
  /\ table = <<>>
  /\ call = [p \in Procs |-> IdleCall]
  /\ hist = [e \in Emails |-> NoHist]
  /\ \E f \in Files :
       /\ f.name = Sample.JsonName /\ f.trailing = MinFileSize /\ ~f.truncated
       /\ ext = [mode |-> "tolerant", file |-> f, pc |-> "m1", details |-> NoDetails,
                 error |-> "none", entry |-> NoDetails, deepest |-> 0, stack |-> <<>>]

NextSearch ==
  \/ ParseMethod1
  \/ ParseMethod2
  \/ ParseMethod3
  \/ ParseMethod4
  \/ ParseMethod5
  \/ ParseMethod6
  \/ SearchBegin
  \/ SearchEnter
  \/ SearchVisit
  \/ SearchReturn

SpecSearch == InitSearch /\ [][NextSearch]_vars

(***************************************************************************)
(* The same on the documents whose only fields are generic keys in an      *)
(* object c.level levels below the root.  The service runs a call to its   *)
(* end, hence the fairness condition.                                      *)
(***************************************************************************)
InitDeep ==
  /\ InitSearch
  /\ ext.file.c.gen = "named" /\ ~ext.file.c.primary
  /\ ext.file.c.alt \in {"none", "poa"}

SpecDeep == InitDeep /\ [][NextSearch]_vars /\ WF_vars(NextSearch)

(***************************************************************************)
(* normalizeGender applied twice to a string.  The strings are one or two  *)
(* of the pieces below, joined.                                            *)
(***************************************************************************)
GenderPieces ==
  {<<"M", "A", "L", "E">>,
   <<"M", "a", "l", "e", " ">>,
   <<"t", "r", "a", "n", "s", "g", "e", "n", "d", "e", "r">>,
   <<"f", "e">>,
   <<"F", "e", "m", "a", "l", "e">>,
   <<"o", "t", "h", "e", "r">>,
   <<"F">>,
   <<" ">>,
   <<"x">>}

GenderInputs == GenderPieces \cup {a \o b : a \in GenderPieces, b \in GenderPieces}

NormalizeGender ==
  /\ ext.pc \in {"gender", "gender1"}
  /\ ext' = [ext EXCEPT !.pc = IF ext.pc = "gender" THEN "gender1" ELSE "gender2",
                        !.value = normalizeGender(Str(ext.value))]
  /\ UNCHANGED <<now, table, call, hist>>

InitGender ==
  /\ now = 0
  /\ table = <<>>
  /\ call = [p \in Procs |-> IdleCall]
  /\ hist = [e \in Emails |-> NoHist]
  /\ \E x \in GenderInputs : ext = [pc |-> "gender", input |-> x, value |-> x]

NextGender == NormalizeGender

SpecGender == InitGender /\ [][NextGender]_vars

(***************************************************************************)
(* Properties                                                              *)
(***************************************************************************)
TypeOK ==
  /\ now >= 0
  /\ Len(table) <= MaxRows
  /\ \A p \in Procs : call[p].pc \in {"idle", "update", "send", "write", "done"}

Comparison(p) == call[p].kind = "verify" /\ call[p].pc \in {"update", "send"}

Began(p) == Idle(p) /\ call'[p] # call[p] /\ call'[p].kind = "verify"

Compared(p) == call[p].kind = "verify" /\ call[p].pc = "update" /\ call'[p].pc # "update"

Sent(p) == call[p].kind = "verify" /\ call[p].pc = "send" /\ call'[p].pc # "send"

Escrowed(r) ==
  [name |-> Atob(r.encrypted_name),
   aadhaarNumber |-> Atob(r.encrypted_aadhaar_number),
   dob |-> IF r.encrypted_dob = <<>> THEN <<>> ELSE Atob(r.encrypted_dob),
   gender |-> IF r.encrypted_gender = <<>> THEN <<>> ELSE Atob(r.encrypted_gender)]

SameName(r, a) == ToLowerCase(Escrowed(r).name) = ToLowerCase(a.name)

SameNumber(r, a) == Escrowed(r).aadhaarNumber = a.aadhaarNumber

DobDiffers(r, a) ==
  Escrowed(r).dob # <<>> /\ a.dob # <<>> /\ Escrowed(r).dob # a.dob

GenderDiffers(r, a) ==
  /\ Escrowed(r).gender # <<>>
  /\ a.gender # <<>>
  /\ ToLowerCase(Escrowed(r).gender) # ToLowerCase(a.gender)

Elapsed(t, r) ==
  r.last_recovery_attempt = <<>> \/ t - r.last_recovery_attempt[1] >= 24

\* C1: (SpecSeq) once five calls in a row, each less than 24 hours after the
\* previous one, have ended as Mismatched, the next call made less than 24
\* hours after the fifth does not reach the comparison: it is never
\* Matched, Mismatched or DeliveryFailure and hands nothing to the mail service.
C1_SixthCallRateLimited ==
  \A p \in Procs :
    (call[p].kind = "verify" /\ call[p].after5) =>
      /\ call[p].pc \notin {"update", "send"}
      /\ call[p].outcome \notin {"Matched", "Mismatched", "DeliveryFailure"}
      /\ call[p].mail = <<>>

\* C2: (Spec) a verify call hands the secret to the mail service only from
\* a row it selected for its address, when the limit check passed and the
\* name, identity number, birth date and gender comparisons all succeeded;
\* a call that is NotFound, RateLimited, Mismatched, StoreFailure or
\* BadRequest has handed nothing to the mail service.
C2_ReleaseOnlyOnMatch ==
  [][\A p \in Procs :
       /\ (call'[p].mail # <<>> /\ call'[p] # call[p]) =>
            /\ call[p].kind = "verify" /\ call[p].pc = "send"
            /\ call[p].recoveryData # <<>>
            /\ LET r == call[p].recoveryData[1]
                   a == call[p].input
               IN /\ r.user_email = call[p].userEmail
                  /\ table[call[p].id].user_email = call[p].userEmail
                  /\ ~(~Elapsed(call[p].now, r) /\ r.recovery_attempts >= 5)
                  /\ SameName(r, a) /\ SameNumber(r, a)
                  /\ ~DobDiffers(r, a) /\ ~GenderDiffers(r, a)
                  /\ call'[p].mail = <<[to |-> call[p].userEmail,
                                       key |-> r.encrypted_decryption_key[2][2]]>>
            /\ call'[p].outcome \in {"Matched", "DeliveryFailure"}
       /\ call'[p].outcome \in {"NotFound", "RateLimited", "Mismatched",
                                "StoreFailure", "BadRequest"} => call'[p].mail = <<>>
    ]_vars

C2_Witness ==
  \E p \in Procs : call[p].outcome = "Matched" /\ call[p].mail # <<>>

\* C3: (SpecSeq) with calls executed one at a time, at most 5 verify calls
\* of an address reach the field comparison in any window shorter than 24
\* hours.
C3_AtMostFivePerWindow ==
  \A e \in Emails : Len(hist[e].cmp) <= 5

\* C4: (Spec) the step in which a verify call ends as NotFound or
\* RateLimited leaves every row of the table as it was.
C4_NoWriteOnNotFoundOrLimited ==
  [][\A p \in Procs :
       (Began(p) /\ call'[p].outcome \in {"NotFound", "RateLimited"}) => table' = table
    ]_vars

C4_Witness ==
  \E p \in Procs :
    /\ call[p].kind = "verify" /\ call[p].outcome = "RateLimited"
    /\ \E i \in DOMAIN table : table[i].recovery_attempts = 5

\* C5: (SpecSeq) the attempt update of a call that reached the comparison
\* writes recovery_attempts = 1 when at least 24 hours have passed since
\* last_recovery_attempt or there was none, otherwise recovery_attempts + 1,
\* and last_recovery_attempt = the call's now, and nothing else; the same
\* for a match (the call goes on to send) and for a mismatch.
C5_AttemptUpdate ==
  [][\A p \in Procs :
       Compared(p) =>
         LET c == call[p]
             old == table[c.id]
         IN IF hist'[c.userEmail].updErr
            THEN table' = table
            ELSE table' = [table EXCEPT ![c.id] =
                   [old EXCEPT !.recovery_attempts =
                                  IF Elapsed(c.now, old) THEN 1
                                  ELSE old.recovery_attempts + 1,
                               !.last_recovery_attempt = <<c.now>>]]
    ]_vars

C5_Witness ==
  \E p \in Procs :
    /\ call[p].kind = "verify" /\ call[p].pc = "send"
    /\ table[call[p].id].recovery_attempts = 3
    /\ table[call[p].id].last_recovery_attempt = <<call[p].now>>

\* C6: (Spec) recovery_attempts of every row is between 0 and 5, whatever
\* the interleaving of verify and store calls and the time between them.
C6_AttemptsAtMostFive ==
  \A i \in DOMAIN table : table[i].recovery_attempts \in 0..5

C6_Witness ==
  /\ \E i \in DOMAIN table : table[i].recovery_attempts = 5
  /\ \E p \in Procs : Comparison(p) /\ call[p].recoveryData[1].recovery_attempts = 4

\* C7 as stated: (SpecDaily) every call of a run of one call per calendar
\* day computes recovery_attempts = 1 and none is RateLimited.
C7_ResetsEveryCalendarDay ==
  \A p \in Procs :
    call[p].kind = "verify" =>
      /\ call[p].pc = "update" => call[p].newAttempts = 1
      /\ call[p].outcome # "RateLimited"

\* C7: (SpecDaily) a call made at least 24 hours after the previous call
\* of the run, or the first call of the run, computes recovery_attempts = 1
\* and is not RateLimited; recovery_attempts never exceeds 5 in the run.
C7_ResetsAfter24Hours ==
  /\ \A p \in Procs :
       (call[p].kind = "verify" /\ call[p].gapOk) =>
         /\ call[p].pc = "update" => call[p].newAttempts = 1
         /\ call[p].outcome # "RateLimited"
  /\ \A i \in DOMAIN table : table[i].recovery_attempts <= 5

C7_Witness ==
  \E p \in Procs :
    /\ call[p].kind = "verify" /\ call[p].gapOk /\ call[p].pc = "update"
    /\ call[p].recoveryData[1].recovery_attempts = 5
    /\ call[p].newAttempts = 1
    /\ DayOf(now) >= 6

\* C8: (SpecCompare) when the submitted name equals the escrowed name up to
\* case and the identity numbers are equal, a call that reached the
\* comparison ends as Mismatched exactly when the birth date is present on
\* both sides and differs, or the gender is present on both sides and
\* differs up to case; otherwise the comparison succeeds and the call goes
\* on to send the secret.
C8_OptionalFields ==
  [][\A p \in Procs :
       LET r == call[p].recoveryData[1]
           a == call[p].input
       IN /\ (Compared(p) /\ SameName(r, a) /\ SameNumber(r, a)) =>
               /\ call'[p].outcome = "Mismatched" <=> (DobDiffers(r, a) \/ GenderDiffers(r, a))
               /\ call'[p].outcome # "Mismatched" => call'[p].pc = "send"
          /\ Sent(p) => call'[p].outcome \in {"Matched", "DeliveryFailure"}
    ]_vars

C8_Witness ==
  \E p \in Procs :
    /\ call[p].kind = "verify" /\ call[p].pc = "send"
    /\ call[p].input.dob = <<>> /\ call[p].input.gender = <<>>
    /\ call[p].recoveryData[1].encrypted_dob # <<>>
    /\ call[p].recoveryData[1].encrypted_gender # <<>>

\* C9: (SpecCompare) a submitted identity number that equals the escrowed
\* one after whitespace and every other non-digit character is removed from
\* both is treated as equal: with the name equal up to case and no birth
\* date or gender difference, the call does not end as Mismatched.
C9_NormalizedNumbers ==
  [][\A p \in Procs :
       LET r == call[p].recoveryData[1]
           a == call[p].input
       IN (/\ Compared(p)
           /\ SameName(r, a)
           /\ StripNonDigits(StripWhitespace(Escrowed(r).aadhaarNumber))
                = StripNonDigits(StripWhitespace(a.aadhaarNumber))
           /\ ~DobDiffers(r, a) /\ ~GenderDiffers(r, a))
          => call'[p].outcome # "Mismatched"
    ]_vars

\* C10: (Spec) a verify call that submits exactly the escrowed attributes
\* and reads the row at least 24 hours after its last_recovery_attempt (or
\* when it has none) is not RateLimited: it passes the limit check, its
\* comparison succeeds and it goes on to send the secret (Matched, or
\* DeliveryFailure when the mail service fails); only a failed lookup ends
\* it earlier, as StoreFailure.  A call that ends as RateLimited leaves
\* last_recovery_attempt of every row unchanged.
C10_NoPermanentLockout ==
  [][\A p \in Procs :
       /\ (/\ Began(p)
           /\ Cardinality(RowsOf(call'[p].userEmail)) = 1
           /\ Elapsed(now, table[TheRow(call'[p].userEmail)])
           /\ call'[p].outcome # "StoreFailure")
          => (call'[p].outcome # "RateLimited"
              /\ (call'[p].input = Escrowed(table[TheRow(call'[p].userEmail)])
                    => call'[p].pc = "update"))
       /\ (Compared(p) /\ call[p].input = Escrowed(call[p].recoveryData[1]))
          => call'[p].pc = "send"
       /\ (Sent(p) /\ call[p].input = Escrowed(call[p].recoveryData[1]))
          => (call'[p].outcome \in {"Matched", "DeliveryFailure"} /\ call'[p].mail # <<>>)
       /\ (Began(p) /\ call'[p].outcome = "RateLimited")
          => \A i \in DOMAIN table :
               table'[i].last_recovery_attempt = table[i].last_recovery_attempt
    ]_vars

C10_Witness ==
  \E p \in Procs :
    /\ call[p].kind = "verify" /\ call[p].pc = "send"
    /\ call[p].recoveryData[1].recovery_attempts = 5
    /\ call[p].input = Escrowed(call[p].recoveryData[1])
    /\ table[call[p].id].recovery_attempts = 1

C12_UpdateFailureSurfaces ==
  [][\A p \in Procs :
       (Compared(p) /\ hist'[call[p].userEmail].updErr) =>
         /\ call'[p].outcome = "StoreFailure"
         /\ call'[p].pc # "send"
    ]_vars

\* C13: (SpecRace) the attempt update writes the counter computed from the
\* row the call read, not from the row as it is when the update is applied:
\* when another call that read the same recovery_attempts has already
\* written its update, the second update leaves recovery_attempts only 1
\* above the value both calls read.
C13_UpdateFromSnapshot ==
  [][\A p \in Procs :
       Compared(p) =>
         LET c == call[p]
             snap == c.recoveryData[1]
         IN /\ table'[c.id].recovery_attempts =
                 IF Elapsed(c.now, snap) THEN 1 ELSE snap.recovery_attempts + 1
            /\ (~Elapsed(c.now, snap)
                  /\ table[c.id].recovery_attempts = snap.recovery_attempts + 1)
                => table'[c.id].recovery_attempts = snap.recovery_attempts + 1
    ]_vars

\* Two overlapping calls have both read recovery_attempts = 4, both have
\* reached the comparison and written their update, the counter is 5, and
\* 6 calls have reached the comparison within 24 hours.
C13_Witness ==
  /\ \A p \in Procs :
       /\ call[p].kind = "verify" /\ call[p].pc = "send"
       /\ call[p].recoveryData[1].recovery_attempts = 4
       /\ table[call[p].id].recovery_attempts = 5
  /\ Len(hist["a@x"].cmp) = 6
  /\ \A i \in DOMAIN hist["a@x"].cmp : now - hist["a@x"].cmp[i] < 24

\* C14: (Spec) after any interleaving of store calls the table holds at
\* most one row for each address.
C14_OneRowPerAddress ==
  \A e \in Emails : Cardinality(RowsOf(e)) <= 1

\* C15 as stated: (Spec) a verify call makes at most one call to the table
\* and at most one call to the mail service, the latter only when the
\* comparison succeeded.
C15_OneRoundTripEach ==
  \A p \in Procs :
    call[p].kind = "verify" =>
      /\ call[p].storeCalls <= 1
      /\ Len(call[p].mail) <= 1
      /\ call[p].mail # <<>> => call[p].outcome \in {"Matched", "DeliveryFailure"}

\* C15: (Spec) a verify call makes at most two calls to the table: none
\* when it is a BadRequest, the select only when it ends as StoreFailure,
\* NotFound or RateLimited, and the select and the attempt update when it
\* reached the comparison; it makes at most one call to the mail service,
\* and only when the comparison succeeded (Matched or DeliveryFailure).
C15_TwoStoreCallsOneMail ==
  \A p \in Procs :
    call[p].kind = "verify" =>
      /\ call[p].storeCalls <= 2
      /\ call[p].outcome = "BadRequest" => call[p].storeCalls = 0
      /\ (call[p].outcome \in {"StoreFailure", "NotFound", "RateLimited"}
            \/ call[p].pc = "update") => call[p].storeCalls = 1
      /\ (call[p].outcome \in {"Mismatched", "Matched", "DeliveryFailure"}
            \/ call[p].pc = "send") => call[p].storeCalls = 2
      /\ Len(call[p].mail) <= 1
      /\ call[p].mail # <<>> => call[p].outcome \in {"Matched", "DeliveryFailure"}
      /\ call[p].outcome \in {"Matched", "DeliveryFailure"} => Len(call[p].mail) = 1

C15_Witness ==
  \E p \in Procs :
    /\ call[p].kind = "verify" /\ call[p].outcome = "Matched"
    /\ call[p].storeCalls = 2
    /\ Len(call[p].mail) = 1

\* C16: (SpecExtract) a record returned by extractAadhaarFromJSON, in
\* either revision, has a non-empty name and a non-empty aadhaarNumber; an
\* extraction whose clean-up left one of the two empty has failed and
\* returned nothing.
C16_BothRequiredFields ==
  /\ ext.pc \in {"validate", "returned"} =>
       Len(ext.details.name) > 0 /\ Len(ext.details.aadhaarNumber) > 0
  /\ (ext.pc = "failed" /\ ext.error = "RequiredMissing") =>
       Len(ext.details.name) = 0 \/ Len(ext.details.aadhaarNumber) = 0

\* The number found at KycRes.UidData.@uid was blanked by the clean-up and
\* the extraction failed although a name had been found.
C16_Witness ==
  /\ ext.pc = "failed" /\ ext.error = "RequiredMissing"
  /\ ext.file.c.uid1 = Sample.Short
  /\ Len(ext.details.name) > 0
  /\ Len(ext.details.aadhaarNumber) = 0

PrimaryShape(c) == c.primary /\ c.uid1 = Sample.D12 /\ c.name1 # <<>>

FileErrors == {"NotJsonFile", "FileTooLarge", "FileTooSmall", "InvalidJson"}

StructureErrors == {"NotAadhaarJson", "InvalidStructure", "MissingMetadata", "InvalidCertificate"}

NormalName(n) == ToUpperCase(Trim(CollapseSpaces(StripNonWord(n))))

\* C17 as stated: (SpecExtract) every extraction of a parsed document with
\* KycRes.UidData.@uid = 123456789012 and Poi.@name = N ends by returning
\* name = uppercase(N) and aadhaarNumber = 123456789012, whatever else the
\* document holds.
C17_PrimaryShapeWins ==
  (/\ PrimaryShape(ext.file.c)
   /\ ext.pc \in {"returned", "failed"}
   /\ ext.error \notin FileErrors)
  => /\ ext.pc = "returned"
     /\ ext.details.name = ToUpperCase(ext.file.c.name1)
     /\ ext.details.aadhaarNumber = Sample.D12

\* C17: (SpecExtract) for a document with KycRes.UidData.@uid =
\* 123456789012 and Poi.@name = N that passed the structure checks, the
\* parsed aadhaarNumber is 123456789012 and the parsed name is N upper-cased
\* and trimmed, after the clean-up N without its non-word characters, with
\* runs of blanks collapsed, trimmed and upper-cased, whatever alternate
\* shapes and name-like keys the document also holds; the extraction
\* returns these two values unless the cleaned name is empty (required
\* fields missing) or, in the tolerant revision, validateExtractedData
\* rejects the details.  The strict revision never rejects the structure
\* of such a document.
C17_PrimaryShapeWinsWhenAccepted ==
  PrimaryShape(ext.file.c) =>
    /\ ext.pc \in {"m2", "m3", "m4", "m5", "m6", "m7", "cleanup"} =>
         /\ ext.details.aadhaarNumber = Sample.D12
         /\ ext.details.name = Trim(ToUpperCase(ext.file.c.name1))
    /\ ext.pc \in {"required", "validate", "returned"} =>
         /\ ext.details.aadhaarNumber = Sample.D12
         /\ ext.details.name = NormalName(ext.file.c.name1)
    /\ ext.pc = "failed" =>
         \/ ext.error \in FileErrors
         \/ ext.error \in StructureErrors /\ ext.mode = "tolerant"
         \/ ext.error = "RequiredMissing" /\ NormalName(ext.file.c.name1) = <<>>
         \/ /\ ext.error = "InvalidData" /\ ext.mode = "tolerant"
            /\ ~validateExtractedData(ext.details)

C17_Witness ==
  /\ ext.pc = "returned"
  /\ PrimaryShape(ext.file.c)
  /\ ext.file.c.name1 = Sample.ONeil
  /\ ext.file.c.alt = "direct"
  /\ ext.details.name # ToUpperCase(Sample.ONeil)
  /\ ext.details.name = NormalName(Sample.ONeil)
  /\ ext.details.aadhaarNumber = Sample.D12

KnownShape(data) ==
  \/ JsTruthy(Get(Get(data, K.KycRes), K.UidData))
  \/ JsTruthy(Get(Get(data, K.KycRes), K.Poi))
  \/ JsTruthy(Get(data, K.uid)) \/ JsTruthy(Get(data, K.UID))
  \/ JsTruthy(Get(data, K.name)) \/ JsTruthy(Get(data, K.Name))
  \/ JsTruthy(Get(Get(data, K.CertificateData), K.certificate))
  \/ JsTruthy(Get(data, K.demographicData)) \/ JsTruthy(Get(data, K.DemographicData))
  \/ JsTruthy(Get(data, K.PrintLetterBWPhoto)) \/ JsTruthy(Get(data, K.printLetterBWPhoto))

VocabularyKey(key) ==
  \/ Includes(ToLowerCase(key), W.uid)
  \/ Includes(ToLowerCase(key), W.aadhaar)
  \/ Includes(ToLowerCase(key), W.name)

RECURSIVE HasVocabularyKey(_)

HasVocabularyKey(x) ==
  /\ x.t = "object"
  /\ \E i \in DOMAIN x.v : VocabularyKey(x.v[i][1]) \/ HasVocabularyKey(x.v[i][2])

Fieldless(f) == ~KnownShape(JsonData(f)) /\ ~HasVocabularyKey(JsonData(f))

\* C18 as stated: (SpecExtract) every extraction of a parsed document with
\* none of the known shapes and no key at any depth whose name contains
\* uid, aadhaar or name fails with the error 'Could not extract required
\* Aadhaar details' (ExtractionFailure).
C18_FailsWithExtractionFailure ==
  (/\ Fieldless(ext.file)
   /\ ext.pc \in {"returned", "failed"}
   /\ ext.error \notin FileErrors)
  => /\ ext.pc = "failed"
     /\ ErrorKind(ext.error) = "ExtractionFailure"

\* C18: (SpecExtract) the extraction of a document with none of the known
\* shapes and no key at any depth whose name contains uid, aadhaar or name
\* finds neither a name nor a number and never returns a record: it fails
\* with a StructuralRejection error when the structure check rejects the
\* document and with ExtractionFailure otherwise, never with
\* AttributeRejection.  In the strict revision the structure check accepts
\* such a document only when it has KycRes.Poa.
C18_FieldlessNeverReturned ==
  Fieldless(ext.file) =>
    /\ ext.pc \notin {"validate", "returned"}
    /\ ext.details.name = <<>> /\ ext.details.aadhaarNumber = <<>>
    /\ ext.pc = "failed" =>
         /\ ErrorKind(ext.error) \in {"MalformedInput", "StructuralRejection",
                                      "ExtractionFailure"}
         /\ ext.error \notin FileErrors =>
              (ErrorKind(ext.error) = "ExtractionFailure"
                 <=> StructureError(ext.mode, ext.file) = "none")
         /\ (ext.mode = "strict" /\ ext.error \notin FileErrors) =>
              (ErrorKind(ext.error) = "ExtractionFailure"
                 <=> JsTruthy(Get(Get(JsonData(ext.file), K.KycRes), K.Poa)))

\* A document with KycRes.Poa and a nested birthDate key passed the
\* structure checks of the tolerant revision, the recursive search ran, and
\* the extraction failed for want of the required fields.
C18_Witness ==
  /\ ext.pc = "failed" /\ ext.error = "RequiredMissing"
  /\ ext.mode = "tolerant"
  /\ Fieldless(ext.file)
  /\ ext.file.c.alt = "poa"
  /\ ext.details.dob = Sample.GenDob

\* C19: (SpecExtract) when the known shapes were tried (Methods 1-6), the
\* recursive generic search runs if any of the four fields is still missing,
\* also when only the date of birth or the gender is: the details after
\* Method 7 are those the search yields from the details before it (the
\* search assigns only missing fields, so it changes nothing when all four
\* are present).
C19_SearchRunsWhenAnyMissing ==
  [][ext.pc = "m7" =>
       ext'.details = searchForFieldsRecursively(JsonData(ext.file), ext.details, 0)]_vars

\* C20: (SpecExtract) the gender of every record returned by the extraction,
\* when the record has one, is one of Male, Female, Others; a single-letter
\* code such as "F" or "M" in the document is not returned as the raw letter.
C20_GenderInVocabulary ==
  (ext.pc = "returned" /\ Truthy(ext.details.gender))
    => ext.details.gender \in {Male, Female, Others}

\* C21: (SpecGender) normalizeGender is idempotent and follows the stated
\* precedence: applying it to its own result changes nothing; ignoring case,
\* a string containing "female" maps to Female, one containing "male" but
\* not "female" to Male, one containing "other" or "transgender" and neither
\* "male" nor "female" to Others, and any other string is returned
\* unchanged; "MALE", "Male " and "transgender" map to Male, Male, Others.
C21_IdempotentWithPrecedence ==
  LET lower == ToLowerCase(ext.input)
      expected == IF Includes(lower, W.female) THEN Female
                  ELSE IF Includes(lower, W.male) THEN Male
                  ELSE IF Includes(lower, W.other) \/ Includes(lower, W.transgender)
                       THEN Others
                  ELSE ext.input
  IN /\ ext.pc \in {"gender1", "gender2"} => ext.value = expected
     /\ (ext.pc = "gender1" /\ ext.input = <<"M", "A", "L", "E">>) => ext.value = Male
     /\ (ext.pc = "gender1" /\ ext.input = <<"M", "a", "l", "e", " ">>) => ext.value = Male
     /\ (ext.pc = "gender1" /\ ext.input = <<"t", "r", "a", "n", "s", "g", "e", "n", "d", "e", "r">>) => ext.value = Others

\* normalizeGender was applied twice to "feMale ": Female both times.
C21_Witness ==
  /\ ext.pc = "gender2"
  /\ ext.input = <<"f", "e", "M", "a", "l", "e", " ">>
  /\ ext.value = Female

DateShaped(s, seps) ==
  /\ Len(s) = 10
  /\ \A i \in 1..10 : IF i \in seps THEN s[i] \in {"/", "-"} ELSE IsDigit(s[i])
  /\ \A i \in seps, j \in seps : s[i] = s[j]

ValidAttributes(d) ==
  /\ Len(d.name) >= 2 /\ Len(d.name) <= 100
  /\ \A i \in DOMAIN d.name : IsLetter(d.name[i]) \/ d.name[i] \in {" ", ".", "-", "'"}
  /\ Len(d.aadhaarNumber) >= 8 /\ Len(d.aadhaarNumber) <= 12
  /\ \A i \in DOMAIN d.aadhaarNumber :
       IsDigit(d.aadhaarNumber[i]) \/ d.aadhaarNumber[i] \in {"x", "X"}
  /\ d.dob # <<>> =>
       \/ DateShaped(d.dob, {3, 6}) /\ d.dob[3] = "/"
       \/ DateShaped(d.dob, {5, 8}) /\ d.dob[5] = "-"
       \/ DateShaped(d.dob, {3, 6}) /\ d.dob[3] = "-"
  /\ d.gender # <<>> =>
       ToLowerCase(d.gender) \in
         {<<"m", "a", "l", "e">>, <<"f", "e", "m", "a", "l", "e">>,
          <<"o", "t", "h", "e", "r", "s">>, <<"m">>, <<"f">>, <<"o">>}

\* C22: (SpecExtract, tolerant revision) every record the extraction returns
\* has a name of 2 to 100 letters, blanks, '.', '-' and apostrophes, a
\* number of 8 to 12 digits and mask characters x/X, a date of birth (if
\* any) in DD/MM/YYYY, YYYY-MM-DD or DD-MM-YYYY form and a gender (if any)
\* in the vocabulary male, female, others, m, f, o (any case); the extraction
\* fails with 'Extracted data appears to be invalid' exactly when the
\* details that passed the required-fields test are outside these sets.
C22_ReturnedRecordsValid ==
  ext.mode = "tolerant" =>
    /\ ext.pc = "returned" => ValidAttributes(ext.details)
    /\ (ext.pc = "failed" /\ ext.error = "InvalidData") =>
         /\ ~ValidAttributes(ext.details)
         /\ ext.details.name # <<>> /\ ext.details.aadhaarNumber # <<>>

\* A document with the primary shape and an issuer passed the structure
\* checks of the tolerant revision and yielded the gender "NA": the
\* extraction failed at the validation of the extracted details.
C22_Witness ==
  /\ ext.mode = "tolerant"
  /\ ext.pc = "failed" /\ ext.error = "InvalidData"
  /\ ext.details.gender = Sample.GenderNA
  /\ ext.details.name = ToUpperCase(Sample.Jane)
  /\ ext.details.aadhaarNumber = Sample.D12

OnlyPrimary(c) ==
  /\ c.primary /\ c.uid1 # <<>> /\ c.name1 = Sample.Jane
  /\ c.dob1 = <<>> /\ c.gender1 = <<>>
  /\ c.alt = "none" /\ c.gen = "none"

AcceptedFromSearch(mode, v) ==
  LET data == Obj(<< <<Sample.resident,
                       Obj(<< <<Sample.holderName, Str(Sample.Jane)>>,
                              <<Sample.aadhaarNo, Str(v)>> >>)>> >>)
      d == CleanUp(mode, searchForFieldsRecursively(data, NoDetails, 0))
  IN RequiredPresent(d) /\ (mode = "tolerant" => validateExtractedData(d))

\* C23: (SpecExtract) a service applies one length policy to the identity
\* number on every path: the extraction of a document that carries a value
\* at the fixed path KycRes.UidData.@uid (and nothing else but a name)
\* returns a record if and only if the same value under a key found by the
\* recursive search (resident.aadhaarNo) would be accepted too.
C23_OneLengthPolicy ==
  (/\ OnlyPrimary(ext.file.c)
   /\ ext.pc \in {"returned", "failed"}
   /\ ext.error \notin FileErrors \cup StructureErrors)
  => (ext.pc = "returned" <=> AcceptedFromSearch(ext.mode, ext.file.c.uid1))

\* C24: (SpecDeep) the recursive search ends on every document, also on
\* one nested MaxNest levels deep, and never looks at the keys of an object
\* more than 5 levels below the root: no call is active below depth 6 and
\* no key is looked at below depth 5; its result is that of
\* searchForFieldsRecursively; started with no field found, it finds the
\* four fields held by the object at depth c.level when that depth is at
\* most 5 and none of them when it is more.
C24_SearchStopsAtDepthBound ==
  /\ <>(ext.pc = "cleanup")
  /\ [](/\ ext.deepest <= 5
        /\ \A k \in DOMAIN ext.stack : ext.stack[k].depth <= 6
        /\ ext.pc = "cleanup" =>
             /\ ext.details = Method7(JsonData(ext.file), ext.entry)
             /\ ext.entry = NoDetails
             /\ IF ext.file.c.level <= 5
                THEN ext.details = [name |-> ToUpperCase(Sample.GenName),
                                    aadhaarNumber |-> Sample.GenUid,
                                    dob |-> Sample.GenDob,
                                    gender |-> Sample.GenGender]
                ELSE ext.details = NoDetails)

\* The search ended on a document nested MaxNest levels deep whose generic
\* keys are at the bottom: keys were looked at down to depth 5 and nothing
\* was found.
C24_Witness ==
  /\ ext.pc = "cleanup"
  /\ ext.file.c.level = MaxNest
  /\ ext.deepest = 5
  /\ ext.details = NoDetails

Fields == {"name", "aadhaarNumber", "dob", "gender"}

\* C25: (SpecSearch) first match wins per field: no step of
\* parseAadhaarFromJSON before its clean-up, be it one of Methods 1 to 6 or
\* the visit of one key by the recursive search, changes a field that
\* already has a value; a step only fills fields that are still empty.
C25_FirstMatchWins ==
  [][\A f \in Fields : ext.details[f] # <<>> => ext'.details[f] = ext.details[f]]_vars

\* The number came from KycRes.UidData.@uid; the search then ran for the
\* name, found it under holderName and passed the key aadhaarNo, which
\* holds another 12-digit number, without taking it.
C25_Witness ==
  /\ ext.pc = "cleanup"
  /\ ext.file.c.gen = "named"
  /\ ext.entry.aadhaarNumber = Sample.D12 /\ ext.entry.name = <<>>
  /\ ext.details.aadhaarNumber = Sample.D12
  /\ ext.details.name = ToUpperCase(Sample.GenName)

RECURSIVE Has(_, _)

Has(o, path) ==
  \/ path = <<>>
  \/ HasOwnProperty(o, Head(path)) /\ Has(Get(o, Head(path)), Tail(path))

ShapeCheck(data) ==
  \/ Has(data, <<K.KycRes, K.UidData>>)
  \/ Has(data, <<K.CertificateData, K.certificate>>)
  \/ Has(data, <<K.PrintLetterBWPhoto>>) \/ Has(data, <<K.printLetterBWPhoto>>)
  \/ \E k \in {K.KycRes, K.UidData, K.certificate, K.CertificateData} : Has(data, <<k>>)

ContainsAnyCase(text, words) ==
  \E i \in DOMAIN words : Includes(ToLowerCase(text), ToLowerCase(words[i]))

ProvenanceCheck(text) ==
  \/ ContainsAnyCase(text, SIGNATURE_PATTERNS)
  \/ ContainsAnyCase(text, CERTIFICATE_TYPES)
  \/ RegexTest(text, TimestampPattern) /\ HasCertificatePattern(text)

CertificateCheck(data) ==
  LET present == {k \in {K.CertificateData, K.certificate} : Has(data, <<k>>)} IN
  \/ present = {}
  \/ LET it == IF K.CertificateData \in present THEN Get(data, K.CertificateData)
               ELSE Get(data, K.certificate) IN
     /\ Has(it, <<K.uid>>) \/ Has(it, <<K.UID>>)
     /\ Has(it, <<K.name>>) \/ Has(it, <<K.Name>>)

FirstFailingCheck(f) ==
  IF ~ShapeCheck(JsonData(f)) THEN "InvalidStructure"
  ELSE IF ~ProvenanceCheck(FileText(f)) THEN "MissingMetadata"
  ELSE IF ~CertificateCheck(JsonData(f)) THEN "InvalidCertificate"
  ELSE "none"

CertificatePath == <<K.CertificateData, K.certificate>>

\* C27: (SpecExtract) the structure validation and Method 4 agree on the
\* certificate shape: a parsed document that holds the number and the name
\* at CertificateData.certificate.uid and CertificateData.certificate.name,
\* holds no value for them on an earlier path and passes the provenance
\* check is not rejected by the certificate check, and its extraction
\* returns these two values.
C27_ValidatorAgreesWithExtractor ==
  (/\ ext.mode = "tolerant"
   /\ ext.pc \in {"returned", "failed"}
   /\ ErrorKind(ext.error) # "MalformedInput"
   /\ Has(JsonData(ext.file), CertificatePath \o <<K.uid>>)
   /\ Has(JsonData(ext.file), CertificatePath \o <<K.name>>)
   /\ ~Has(JsonData(ext.file), <<K.KycRes>>)
   /\ ProvenanceCheck(FileText(ext.file)))
  => /\ ext.error # "InvalidCertificate"
     /\ ext.pc = "returned"
     /\ ext.details.aadhaarNumber = Sample.AltUid
     /\ ext.details.name = ToUpperCase(Sample.AltName)

StoreBegan(p) == Idle(p) /\ call'[p] # call[p] /\ call'[p].kind = "store"

StoreWrote(p) == call[p].kind = "store" /\ call[p].pc = "write" /\ call'[p].pc = "done"

AttemptState(r) == <<r.user_email, r.recovery_attempts, r.last_recovery_attempt>>

\* C28: (SpecRegister) the frame of a registration.  The call changes no row
\* before its write, and only a call with address, name, number and key gets
\* to the write.  The write leaves every row's user_email,
\* recovery_attempts and last_recovery_attempt as they were; on an existing
\* row it sets the five encoded fields, salt and updated_at to those of the
\* call and touches no other row; a row it adds has recovery_attempts 0 and
\* no last_recovery_attempt; a write that fails changes nothing.
C28_RegistrationFrame ==
  [][\A p \in Procs :
       /\ StoreBegan(p) =>
            /\ table' = table
            /\ call'[p].pc = "write" =>
                 /\ call'[p].userEmail # "" /\ call'[p].decryptionKey # ""
                 /\ Truthy(call'[p].input.name) /\ Truthy(call'[p].input.aadhaarNumber)
       /\ StoreWrote(p) =>
            LET c == call[p]
                n == NewRow(c.userEmail, c.input, c.decryptionKey, c.salt, now)
            IN /\ \A i \in DOMAIN table :
                    /\ i \in DOMAIN table'
                    /\ AttemptState(table'[i]) = AttemptState(table[i])
                    /\ i # c.id => table'[i] = table[i]
               /\ \A i \in DOMAIN table' \ DOMAIN table :
                    table'[i].recovery_attempts = 0 /\ table'[i].last_recovery_attempt = <<>>
               /\ (call'[p].outcome = "Stored" /\ c.id # 0) =>
                    table' = [table EXCEPT ![c.id] =
                                [n EXCEPT !.recovery_attempts = table[c.id].recovery_attempts,
                                          !.last_recovery_attempt =
                                             table[c.id].last_recovery_attempt]]
               /\ call'[p].outcome # "Stored" => table' = table]_vars

\* A record locked out by five failed attempts at hour 0 was registered
\* again twelve hours later: the row has the new salt and updated_at, still
\* five attempts, and a verify call would still be refused.
C28_Witness ==
  /\ call["p1"].kind = "store" /\ call["p1"].outcome = "Stored"
  /\ \E i \in DOMAIN table :
       /\ table[i].recovery_attempts = MaxAttempts
       /\ table[i].last_recovery_attempt # <<>>
       /\ table[i].updated_at > table[i].last_recovery_attempt[1]
       /\ table[i].salt = "s2"
       /\ LimitExceeded(now, table[i])

\* C29: (SpecRegister) the register-then-verify round trip: once a
\* registration of an address has ended as Stored, a verify call that
\* submits the attributes of the most recent such registration, and whose
\* lookup the store answers, is either rate limited or finds the record,
\* matches on every field and hands the key of that registration to the
\* mail service for the same address.
C29_RegisterThenVerify ==
  \A e \in Emails :
    hist[e].reg # <<>> =>
      LET reg == hist[e].reg[1]
          c0 == [IdleCall EXCEPT !.kind = "verify", !.userEmail = e, !.input = reg.input]
          c1 == VerifySelected(c0, e, reg.input, FALSE)
      IN \/ c1.outcome = "RateLimited"
         \/ /\ c1.pc = "update"
            /\ ~VerificationFailed(c1.recoveryData[1], c1.input)
            /\ DecryptionKey(c1.recoveryData[1]) = reg.key
            /\ c1.recoveryData[1].user_email = c1.userEmail

FirstFailingGate(f, d) ==
  IF ~EndsWith(ToLowerCase(f.name), DotJson) THEN "NotJsonFile"
  ELSE IF FileSize(f) > 100 * 1024 THEN "FileTooLarge"
  ELSE IF FileSize(f) < 100 THEN "FileTooSmall"
  ELSE IF ~JsonParses(f) THEN "InvalidJson"
  ELSE IF FirstFailingCheck(f) # "none" THEN FirstFailingCheck(f)
  ELSE IF d.name = <<>> \/ d.aadhaarNumber = <<>> THEN "RequiredMissing"
  ELSE IF ~ValidAttributes(d) THEN "InvalidData"
  ELSE "none"

====
